---- MODULE Spec2Model ----
(***************************************************************************)
(* Spartan verification engine of ckb-zkp (scheme/src/spartan/verify.rs).  *)
(*                                                                         *)
(* The scalar field is the prime field of order Q and the group G1 is the  *)
(* additive group of the same order written in discrete-log form, so that  *)
(* scalar multiplication is multiplication mod Q and every commitment      *)
(* equation of the verifier is computed, not assumed.  The transcript is a *)
(* running digest of everything absorbed; a challenge is a function of the *)
(* digest.  A proof is read-only input: the value of each proof field is   *)
(* drawn from a small set at the step that first reads it.                 *)
(* Vectors are sequences, so Rust's index i is index i + 1 here.           *)
(***************************************************************************)
EXTENDS Integers, Sequences, FiniteSets, TLC

VARIABLES
    pc,          \* position of the verifier in the code
    stack,       \* return positions of the calls in progress
    transcript,  \* merlin::Transcript: [d |-> digest, log |-> operations so far]
    checks,      \* the sub-checks evaluated so far, in order, with their results
    outcome,     \* "running", or how the entry function ended
    ret,         \* value returned by the call that ended last
    sc,          \* locals of sum_check_verify
    cub,         \* locals of sum_check_cubic_verify
    pce,         \* locals of product_circuit_eval_verify
    pl,          \* locals of product_layer_verify
    hl,          \* locals of hash_layer_verify and behind_verify_for_timestamp
    ip,          \* locals of inner_product_verify
    sp,          \* locals of sparse_poly_eval_verify
    r1,          \* locals of r1cs_satisfied_verify
    top          \* arguments and locals of nizk_verify / snark_verify

vars == <<pc, stack, transcript, checks, outcome, ret, sc, cub, pce, pl, hl, ip, sp, r1, top>>

frames == <<sc, cub, pce, pl, hl, ip, sp, r1, top>>

\* The frames an action of one function leaves alone.
not_sc  == <<cub, pce, pl, hl, ip, sp, r1, top>>
not_cub == <<sc, pce, pl, hl, ip, sp, r1, top>>
not_pce == <<sc, cub, pl, hl, ip, sp, r1, top>>
not_pl  == <<sc, cub, pce, hl, ip, sp, r1, top>>
not_hl  == <<sc, cub, pce, pl, ip, sp, r1, top>>
not_ip  == <<sc, cub, pce, pl, hl, sp, r1, top>>
not_sp  == <<sc, cub, pce, pl, hl, ip, r1, top>>
not_r1  == <<sc, cub, pce, pl, hl, ip, sp, top>>
not_top == <<sc, cub, pce, pl, hl, ip, sp, r1>>

(***************************************************************************)
(* Bounds                                                                  *)
(***************************************************************************)
Primes == <<3, 5, 7, 11>>
FieldIdx == 1
MaxRounds == 2
MaxLayers == 2
MaxClaims == 2

Q == Primes[FieldIdx]
Fr == 0 .. (Q - 1)
G1 == 0 .. (Q - 1)
TMod == 2 * Q + 1

\* Values an arbitrary proof field is drawn from; response scalars range over Fr.
Smp == {0, 1}

Null == [none |-> TRUE]

(***************************************************************************)
(* Field and group arithmetic (external collaborator)                      *)
(***************************************************************************)
FAdd(a, b) == (a + b) % Q
FSub(a, b) == (a + Q - (b % Q)) % Q
FMul(a, b) == (a * b) % Q

RECURSIVE SeqSum(_)
SeqSum(s) == IF s = <<>> THEN 0 ELSE (s[1] + SeqSum(Tail(s))) % Q

RECURSIVE SeqProd(_)
SeqProd(s) == IF s = <<>> THEN 1 ELSE (s[1] * SeqProd(Tail(s))) % Q

RECURSIVE FPow(_, _)
FPow(a, n) == IF n = 0 THEN 1 ELSE (a * FPow(a, n - 1)) % Q

Vecs(S, n) == [1 .. n -> S]

(***************************************************************************)
(* Setup parameters: generator i of a tier and the blinding generator h,   *)
(* as non-zero group elements.                                             *)
(***************************************************************************)
Generators(n) == [i \in 1 .. n |-> 1 + ((i - 1) % (Q - 1))]
GenH == Q - 1

\* C = sum g_i * v_i + h * blind; the generators must cover the vector.
poly_commit_vec(generators, vector, h, blind) ==
    IF Len(vector) > Len(generators)
    THEN [ok |-> FALSE, commit |-> 0]
    ELSE [ok |-> TRUE,
          commit |-> (SeqSum([i \in 1 .. Len(vector) |-> FMul(generators[i], vector[i])])
                      + FMul(h, blind)) % Q]

(***************************************************************************)
(* Transcript                                                              *)
(***************************************************************************)
Labels == <<"comm_poly", "challenge_nextround", "comm_claim_per_round", "comm_eval",
            "combine_two_claims_to_one", "Cx", "Cy", "delta", "beta", "c",
            "rand_coeffs_next_layer", "claim_prod_left", "claim_prod_right",
            "claim_dotp_row", "claim_dotp_col", "claim_dotp_val", "challenge_r_layer",
            "Spartan NIZK proof", "Spartan SNARK proof", "poly_commitment",
            "challenge_tau", "C", "alpha", "X", "Y", "Z", "comm_Az_claim",
            "comm_Bz_claim", "comm_Cz_claim", "comm_prod_Az_Bz_claims", "C1", "C2",
            "challenege_Az", "challenege_Bz", "challenege_Cz", "protocol-name",
            "L", "R", "u", "Ar_claim", "Br_claim", "Cr_claim",
            "comm_poly_row_col_ops_val", "challenge_gamma_hash",
            "claim_row_eval_init", "claim_row_eval_read", "claim_row_eval_write",
            "claim_row_eval_audit", "claim_col_eval_init", "claim_col_eval_read",
            "claim_col_eval_write", "claim_col_eval_audit", "claim_eval_dotp_left",
            "claim_eval_dotp_right", "evals_ops_val", "challenge_combine_n_to_one",
            "joint_claim_eval", "claim_evals_ops", "joint_claim_eval_ops",
            "claim_evals_mem", "challenge_combine_two_to_one", "joint_claim_eval_mem">>

LabelCode(l) == CHOOSE i \in DOMAIN Labels : Labels[i] = l

\* math::to_bytes! of one field or group element, and of a vector of them
to_bytes(v) == v % TMod

RECURSIVE to_bytes_vec(_)
to_bytes_vec(v) ==
    IF v = <<>> THEN 1 ELSE (v[1] + Q * to_bytes_vec(Tail(v)) + 1) % TMod

append_message(tr, label, bytes) ==
    [log |-> Append(tr.log, [op |-> "append", label |-> label]),
     d   |-> (2 * tr.d + LabelCode(label) + 3 * bytes + 1) % TMod]

challenge_bytes(tr, label) ==
    LET d2 == (3 * tr.d + LabelCode(label) + 2) % TMod
    IN  [tr  |-> [log |-> Append(tr.log, [op |-> "challenge", label |-> label]), d |-> d2],
         buf |-> d2]

random_bytes_to_fr(buf) == buf % Q

(***************************************************************************)
(* Calls and returns                                                       *)
(***************************************************************************)
Return(value) ==
    /\ ret' = value
    /\ IF stack = <<>>
       THEN /\ pc' = "done"
            /\ outcome' = "returned"
            /\ stack' = stack
       ELSE /\ pc' = Head(stack)
            /\ stack' = Tail(stack)
            /\ outcome' = outcome

Panic ==
    /\ pc' = "done"
    /\ outcome' = "panic"
    /\ UNCHANGED <<stack, ret>>

Checked(name, ok, info) == Append(checks, [name |-> name, ok |-> ok, info |-> info])

(***************************************************************************)
(* sum_check_eval_verify: the per-round evaluation consistency check       *)
(***************************************************************************)
\* Shapes and values a SumCheckEvalProof is drawn from.
SampleVecs(n) ==
    IF top = Null THEN { [i \in 1 .. n |-> 1], [i \in 1 .. n |-> i % Q] }
    ELSE { [i \in 1 .. n |-> 1] }

\* Values the commitments of a round are drawn from.
RoundCommits == IF top = Null \/ top.entry = "nizk_verify" THEN Smp ELSE {1}

SumCheckEvalProofs(size) ==
    [d_commit : {1}, dot_cd_commit : {0},
     z : SampleVecs(size) \cup {[i \in 1 .. (size - 1) |-> 1]},
     z_delta : Fr, z_beta : Fr]

\* The coefficient vector without the second w0 on coeffs[0].
eval_coeffs_single_claim(w, r, size) ==
    [k \in 1 .. size |-> FAdd(w[1], FMul(w[2], FPow(r, k - 1)))]

\* coeffs[i] = w0 + w1 * r^i, and coeffs[0] += w0
eval_coeffs(w, r, size) ==
    [k \in 1 .. size |->
        IF k = 1 THEN FAdd(FAdd(w[1], FMul(w[2], FPow(r, 0))), w[1])
                 ELSE FAdd(w[1], FMul(w[2], FPow(r, k - 1)))]

\* first step: commit(poly) * c + commit(d) == commit(z)
eval_rs1(gen_n, commit_poly, proof, c) ==
    LET lhs == FAdd(FMul(commit_poly, c), proof.d_commit)
        rhs == poly_commit_vec(Generators(gen_n), proof.z, GenH, proof.z_delta)
    IN  [ok |-> rhs.ok, holds |-> lhs = rhs.commit]

\* second step: commit_claim_value * c + dot_cd_commit == commit(<z, coeffs>)
eval_rs2(commit_claim_value, proof, coeffs, size, c) ==
    LET lhs == FAdd(FMul(commit_claim_value, c), proof.dot_cd_commit)
        sum == SeqSum([i \in 1 .. size |-> FMul(proof.z[i], coeffs[i])])
        rhs == poly_commit_vec(Generators(1), <<sum>>, GenH, proof.z_beta)
    IN  lhs = rhs.commit

sum_check_eval_verify ==
    /\ pc = "sum_check_eval_verify"
    /\ \E proof \in SumCheckEvalProofs(sc.size) :
        LET c1 == challenge_bytes(transcript, "combine_two_claims_to_one")
            c2 == challenge_bytes(c1.tr, "combine_two_claims_to_one")
            w  == <<random_bytes_to_fr(c1.buf), random_bytes_to_fr(c2.buf)>>
            t1 == append_message(c2.tr, "Cx", to_bytes(sc.commit_poly))
            commit_claim_value ==
                FAdd(FMul(sc.commit_claim, w[1]), FMul(sc.commit_eval, w[2]))
            t2 == append_message(t1, "Cy", to_bytes(commit_claim_value))
            t3 == append_message(t2, "delta", to_bytes(proof.d_commit))
            t4 == append_message(t3, "beta", to_bytes(proof.dot_cd_commit))
            c3 == challenge_bytes(t4, "c")
            c  == random_bytes_to_fr(c3.buf)
            coeffs == eval_coeffs(w, sc.r_i, sc.size)
            rs1 == eval_rs1(sc.gen_n, sc.commit_poly, proof, c)
        IN  /\ transcript' = c3.tr
            /\ IF ~rs1.ok \/ Len(proof.z) < sc.size
               THEN \* unwrap of a failed commitment, or z[i] out of bounds
                    /\ Panic
                    /\ UNCHANGED checks
               ELSE LET rs2 == eval_rs2(commit_claim_value, proof, coeffs, sc.size, c)
                        result == rs1.holds /\ rs2
                    IN  /\ checks' = Checked("sum_check_eval_verify", result,
                                             [claim |-> sc.commit_claim,
                                              eval |-> sc.commit_eval, r |-> sc.r_i,
                                              w |-> w, size |-> sc.size,
                                              rs1 |-> rs1.holds, rs2 |-> rs2])
                        /\ ret' = result
                        /\ pc' = Head(stack)
                        /\ stack' = Tail(stack)
                        /\ UNCHANGED outcome
    /\ UNCHANGED <<sc, not_sc>>

(***************************************************************************)
(* sum_check_verify                                                        *)
(***************************************************************************)
\* The round with the challenge derived before the polynomial commitment is absorbed.
sum_check_verify_round_early_challenge ==
    /\ pc = "sum_check_verify"
    /\ sc.i < sc.num_rounds
    /\ sc.i < sc.lens.polys /\ sc.i < sc.lens.evals /\ sc.i < sc.lens.proofs
    /\ \E commit_poly \in RoundCommits, commit_eval \in RoundCommits :
            LET c1 == challenge_bytes(transcript, "challenge_nextround")
                r_i == random_bytes_to_fr(c1.buf)
                t1 == append_message(c1.tr, "comm_poly", to_bytes(commit_poly))
                t2 == append_message(t1, "comm_claim_per_round",
                                     to_bytes(sc.commit_claim))
                t3 == append_message(t2, "comm_eval", to_bytes(commit_eval))
            IN  /\ transcript' = t3
                /\ sc' = [sc EXCEPT !.commit_poly = commit_poly,
                                    !.commit_eval = commit_eval, !.r_i = r_i]
                /\ pc' = "sum_check_eval_verify"
                /\ stack' = <<"sum_check_verify_assert">> \o stack
                /\ UNCHANGED <<checks, outcome, ret, not_sc>>

sum_check_verify_round ==
    /\ pc = "sum_check_verify"
    /\ sc.i < sc.num_rounds
    /\ IF sc.i >= sc.lens.polys \/ sc.i >= sc.lens.evals \/ sc.i >= sc.lens.proofs
       THEN \* proof.comm_polys[i], comm_evals[i] or proofs[i] is out of bounds
            /\ Panic
            /\ UNCHANGED <<transcript, checks, sc, not_sc>>
       ELSE \E commit_poly \in RoundCommits, commit_eval \in RoundCommits :
            LET t1 == append_message(transcript, "comm_poly", to_bytes(commit_poly))
                c1 == challenge_bytes(t1, "challenge_nextround")
                r_i == random_bytes_to_fr(c1.buf)
                t2 == append_message(c1.tr, "comm_claim_per_round",
                                     to_bytes(sc.commit_claim))
                t3 == append_message(t2, "comm_eval", to_bytes(commit_eval))
            IN  /\ transcript' = t3
                /\ sc' = [sc EXCEPT !.commit_poly = commit_poly,
                                    !.commit_eval = commit_eval, !.r_i = r_i]
                /\ pc' = "sum_check_eval_verify"
                /\ stack' = <<"sum_check_verify_assert">> \o stack
                /\ UNCHANGED <<checks, outcome, ret, not_sc>>

\* The end of a round that forgets to carry the evaluation commitment over as the next claim.
sum_check_verify_assert_stale_claim ==
    /\ pc = "sum_check_verify_assert"
    /\ IF ret
       THEN /\ sc' = [sc EXCEPT !.rx = Append(sc.rx, sc.r_i), !.i = sc.i + 1]
            /\ pc' = "sum_check_verify"
            /\ UNCHANGED <<stack, outcome, ret>>
       ELSE /\ Panic
            /\ UNCHANGED sc
    /\ UNCHANGED <<transcript, checks, not_sc>>

\* The end of a round that goes on whatever the consistency check returned.
sum_check_verify_assert_unchecked ==
    /\ pc = "sum_check_verify_assert"
    /\ sc' = [sc EXCEPT !.rx = Append(sc.rx, sc.r_i),
                        !.commit_claim = sc.commit_eval,
                        !.i = sc.i + 1]
    /\ pc' = "sum_check_verify"
    /\ UNCHANGED <<stack, outcome, ret, transcript, checks, not_sc>>

sum_check_verify_assert ==
    /\ pc = "sum_check_verify_assert"
    /\ IF ret
       THEN /\ sc' = [sc EXCEPT !.rx = Append(sc.rx, sc.r_i),
                                !.commit_claim = sc.commit_eval,
                                !.i = sc.i + 1]
            /\ pc' = "sum_check_verify"
            /\ UNCHANGED <<stack, outcome, ret>>
       ELSE /\ Panic
            /\ UNCHANGED sc
    /\ UNCHANGED <<transcript, checks, not_sc>>

sum_check_verify_return ==
    /\ pc = "sum_check_verify"
    /\ sc.i >= sc.num_rounds
    /\ Return([rx |-> sc.rx, commit_claim |-> sc.commit_claim])
    /\ UNCHANGED <<transcript, checks, sc, not_sc>>

\* The locals of a call sum_check_verify(gen_1, gen_n, proof, commit_claim, size, num_rounds)
\* on a proof whose three lists have the lengths lens.
sum_check_frame(commit_claim, size, num_rounds, lens) ==
    [gen_n |-> size, size |-> size, num_rounds |-> num_rounds, lens |-> lens,
     arg_claim |-> commit_claim, commit_claim |-> commit_claim, rx |-> <<>>, i |-> 0,
     commit_poly |-> 0, commit_eval |-> 0, r_i |-> 0]

SumCheckShapes(n) ==
    { [polys |-> n, evals |-> n, proofs |-> n] }
    \cup { [polys |-> n + 1, evals |-> n + 1, proofs |-> n + 1] }
    \cup { [polys |-> n - a[1], evals |-> n - a[2], proofs |-> n - a[3]] :
             a \in {b \in {<<1, 0, 0>>, <<0, 1, 0>>, <<0, 0, 1>>} : n >= 1} }

InitSC ==
    /\ pc = "sum_check_verify"
    /\ stack = <<>>
    /\ transcript \in [d : 0 .. 1, log : {<<>>}]
    /\ checks = <<>>
    /\ outcome = "running"
    /\ ret = Null
    /\ \E commit_claim \in G1, size \in {3, 4}, num_rounds \in 0 .. MaxRounds :
         \E lens \in SumCheckShapes(num_rounds) :
            sc = sum_check_frame(commit_claim, size, num_rounds, lens)
    /\ cub = Null /\ pce = Null /\ pl = Null /\ hl = Null
    /\ ip = Null /\ sp = Null /\ r1 = Null /\ top = Null

NextSC ==
    \/ sum_check_verify_round
    \/ sum_check_eval_verify
    \/ sum_check_verify_assert
    \/ sum_check_verify_return

SpecSC == InitSC /\ [][NextSC]_vars



(***************************************************************************)
(* Helpers shared by the product-circuit and memory-checking arguments     *)
(***************************************************************************)
\* The value of result, computed after the values of steps in their order: the
\* statements of a function body run one after another.
InOrder(steps, result) == <<steps, result>>[2]

\* k challenges derived one after another: the first half of them, then the rest
RECURSIVE challenges(_, _, _)
challenges(tr, label, k) ==
    IF k = 0 THEN [tr |-> tr, vals |-> <<>>]
    ELSE IF k = 1
    THEN LET c == challenge_bytes(tr, label)
         IN  [tr |-> c.tr, vals |-> <<random_bytes_to_fr(c.buf)>>]
    ELSE LET a == challenges(tr, label, k \div 2)
             b == challenges(a.tr, label, k - k \div 2)
         IN  InOrder(<<a, b>>, [tr |-> b.tr, vals |-> a.vals \o b.vals])

\* msgs is a sequence of <<label, value>>, absorbed in order: the first half of them,
\* then the rest
RECURSIVE append_all(_, _)
append_all(tr, msgs) ==
    IF msgs = <<>> THEN tr
    ELSE IF Len(msgs) = 1 THEN append_message(tr, msgs[1][1], to_bytes(msgs[1][2]))
    ELSE LET half == Len(msgs) \div 2
             a == append_all(tr, SubSeq(msgs, 1, half))
         IN  InOrder(<<a>>, append_all(a, SubSeq(msgs, half + 1, Len(msgs))))

RECURSIVE Pow2(_)
Pow2(k) == IF k = 0 THEN 1 ELSE 2 * Pow2(k - 1)

\* math::log2: the least l with 2^l >= n
RECURSIVE log2(_)
log2(n) == IF n <= 1 THEN 0 ELSE 1 + log2((n + 1) \div 2)

Ones(k) == [i \in 1 .. k |-> 1]
Zeros(k) == [i \in 1 .. k |-> 0]

\* DensePolynomial::evaluate
evaluate(coeffs, x) == SeqSum([k \in 1 .. Len(coeffs) |-> FMul(coeffs[k], FPow(x, k - 1))])

(***************************************************************************)
(* Multilinear polynomials (external collaborator)                          *)
(***************************************************************************)
\* usize::next_power_of_two
next_power_of_two(n) == Pow2(log2(n))

\* bit k (1 = most significant) of i written on len bits
Bit(i, k, len) == (i \div Pow2(len - k)) % 2

\* eq(i, r) = prod_k (r[k] if bit k of i is set, else 1 - r[k])
eq_index(i, r) ==
    SeqProd([k \in 1 .. Len(r) |-> IF Bit(i, k, Len(r)) = 1 THEN r[k] ELSE FSub(1, r[k])])

\* eval_eq: the 2^len values eq(i, r)
eval_eq(r) == [i \in 1 .. Pow2(Len(r)) |-> eq_index(i - 1, r)]

\* eval_eq_x_y: prod_k x[k] * y[k] + (1 - x[k]) * (1 - y[k]); the vectors must agree in length
eval_eq_x_y(x, y) ==
    SeqProd([k \in 1 .. Len(x) |->
                FAdd(FMul(x[k], y[k]), FMul(FSub(1, x[k]), FSub(1, y[k])))])

\* evaluate_value: the multilinear extension of vals at r
evaluate_value(vals, r) ==
    SeqSum([i \in 1 .. Len(vals) |-> FMul(vals[i], eq_index(i - 1, r))])

\* bound_poly_var_bot: binds the lowest variable, halving the table
bound_poly_var_bot(poly, r) ==
    [i \in 1 .. (Len(poly) \div 2) |->
        FAdd(poly[2 * i - 1], FMul(r, FSub(poly[2 * i], poly[2 * i - 1])))]

\* for i in (0..cs.len()).rev() { poly = bound_poly_var_bot(poly, cs[i]) }
RECURSIVE bound_all(_, _)
bound_all(poly, cs) ==
    IF cs = <<>> THEN poly
    ELSE bound_all(bound_poly_var_bot(poly, cs[Len(cs)]), SubSeq(cs, 1, Len(cs) - 1))

\* Vec::resize(len, zero)
resize(v, len) == [i \in 1 .. len |-> IF i <= Len(v) THEN v[i] ELSE 0]

\* equalize_length: the shorter point is extended in front with zeros
equalize_length(rx, ry) ==
    LET len == IF Len(rx) > Len(ry) THEN Len(rx) ELSE Len(ry)
        ext(r) == Zeros(len - Len(r)) \o r
    IN  <<ext(rx), ext(ry)>>

\* evaluate_mle: sum over the entries (row, col, val) of a sparse matrix of
\* val * eq(row, rx) * eq(col, ry)
RECURSIVE evaluate_mle(_, _, _)
evaluate_mle(matrix, rx, ry) ==
    IF matrix = <<>> THEN 0
    ELSE LET e == matrix[1]
         IN  FAdd(FMul(e[3], FMul(eq_index(e[1], rx), eq_index(e[2], ry))),
                  evaluate_mle(Tail(matrix), rx, ry))

(***************************************************************************)
(* bullet_inner_product_verify (external collaborator): one folding round  *)
(* per halving of the public vector; every round absorbs the round's two   *)
(* commitments and derives a challenge u.                                  *)
(***************************************************************************)
RECURSIVE bullet_fold(_, _, _, _, _, _)
bullet_fold(tr, gens, a, gamma, proof, k) ==
    IF Len(a) <= 1
    THEN [tr |-> tr, b_s |-> a[1], g_hat |-> gens[1], gamma_hat |-> gamma]
    ELSE LET half == Len(a) \div 2
             t1 == append_message(tr, "L", to_bytes(proof.l_vec[k]))
             t2 == append_message(t1, "R", to_bytes(proof.r_vec[k]))
             c1 == challenge_bytes(t2, "u")
             u  == random_bytes_to_fr(c1.buf)
             g2 == [i \in 1 .. half |-> FAdd(gens[i], FMul(u, gens[half + i]))]
             a2 == [i \in 1 .. half |-> FAdd(a[i], FMul(u, a[half + i]))]
             gamma2 == FAdd(FAdd(proof.l_vec[k], FMul(u, gamma)),
                            FMul(FMul(u, u), proof.r_vec[k]))
         IN  InOrder(<<t1, t2, c1, g2[1], a2[1], gamma2>>,
                     bullet_fold(c1.tr, g2, a2, gamma2, proof, k + 1))

bullet_inner_product_verify(gens, proof, gamma, a, tr) ==
    IF \/ Len(proof.l_vec) # log2(Len(a))
       \/ Len(proof.r_vec) # log2(Len(a))
       \/ Len(gens) < Len(a)
    THEN [ok |-> FALSE, tr |-> tr, b_s |-> 0, g_hat |-> 0, gamma_hat |-> 0]
    ELSE [ok |-> TRUE] @@ bullet_fold(tr, gens, a, gamma, proof, 1)

(***************************************************************************)
(* knowledge_verify, product_verify, eq_verify                             *)
(***************************************************************************)
KnowledgeProofs == [t_commit : {1}, z1 : {1}, z2 : Fr]

\* The knowledge proof with c derived before t_commit is absorbed.
knowledge_verify_early_challenge(proof, commit, tr) ==
    LET t1 == append_message(tr, "C", to_bytes(commit))
        c1 == challenge_bytes(t1, "c")
        c  == random_bytes_to_fr(c1.buf)
        t2 == append_message(c1.tr, "alpha", to_bytes(proof.t_commit))
        lhs == poly_commit_vec(Generators(1), <<proof.z1>>, GenH, proof.z2)
        rhs == FAdd(FMul(commit, c), proof.t_commit)
    IN  [tr |-> t2, panic |-> ~lhs.ok, result |-> lhs.commit = rhs]

knowledge_verify(proof, commit, tr) ==
    LET t1 == append_message(tr, "C", to_bytes(commit))
        t2 == append_message(t1, "alpha", to_bytes(proof.t_commit))
        c1 == challenge_bytes(t2, "c")
        c  == random_bytes_to_fr(c1.buf)
        lhs == poly_commit_vec(Generators(1), <<proof.z1>>, GenH, proof.z2)
        rhs == FAdd(FMul(commit, c), proof.t_commit)
    IN  [tr |-> c1.tr, panic |-> ~lhs.ok, result |-> lhs.commit = rhs]

\* z carries five scalars; a shorter z is an index out of bounds
ProductProofs ==
    [commit_alpha : {1}, commit_beta : {0}, commit_delta : {1},
     z : {<<1, a, 0, b, c>> : a \in Fr, b \in Fr, c \in Fr} \cup {<<1, 0, 0, 0>>}]

product_verify(proof, va_commit, vb_commit, prod_commit, tr) ==
    IF Len(proof.z) < 5
    THEN [tr |-> tr, panic |-> TRUE, result |-> FALSE]
    ELSE
    LET z == proof.z
        t6 == append_all(tr, << <<"X", va_commit>>, <<"Y", vb_commit>>, <<"Z", prod_commit>>,
                                <<"alpha", proof.commit_alpha>>, <<"beta", proof.commit_beta>>,
                                <<"delta", proof.commit_delta>> >>)
        c1 == challenge_bytes(t6, "c")
        c  == random_bytes_to_fr(c1.buf)
        rs1_rhs == poly_commit_vec(Generators(1), <<z[1]>>, GenH, z[2])
        rs2_rhs == poly_commit_vec(Generators(1), <<z[3]>>, GenH, z[4])
        rs3_rhs == poly_commit_vec(<<va_commit>>, <<z[3]>>, GenH, z[5])
        rs1 == FAdd(proof.commit_alpha, FMul(va_commit, c)) = rs1_rhs.commit
        rs2 == FAdd(proof.commit_beta, FMul(vb_commit, c)) = rs2_rhs.commit
        rs3 == FAdd(proof.commit_delta, FMul(prod_commit, c)) = rs3_rhs.commit
    IN  [tr |-> c1.tr, panic |-> FALSE, result |-> rs1 /\ rs2 /\ rs3]

EqProofs == [alpha : {1}, z : Fr]

eq_verify(commit1, commit2, proof, tr) ==
    LET t3 == append_all(tr, << <<"C1", commit1>>, <<"C2", commit2>>,
                                <<"alpha", proof.alpha>> >>)
        c1 == challenge_bytes(t3, "c")
        c  == random_bytes_to_fr(c1.buf)
        commits == FSub(commit1, commit2)
        lhs == FMul(GenH, proof.z)
        rhs == FAdd(FMul(commits, c), proof.alpha)
    IN  [tr |-> c1.tr, result |-> lhs = rhs]

(***************************************************************************)
(* The hashes of the memory-checking argument                              *)
(***************************************************************************)
\* sum_i rands_mem[i] * 2^(len - i - 1)
eval_init_addr(rands_mem) ==
    SeqSum([i \in 1 .. Len(rands_mem) |->
               FMul(rands_mem[i], Pow2(Len(rands_mem) - i) % Q)])

\* addr * gamma1^2 + val * gamma1 + ts - gamma2
hash_at(addr, val, ts, gamma) ==
    FSub(FAdd(FAdd(FMul(FMul(addr, gamma[1]), gamma[1]), FMul(val, gamma[1])), ts), gamma[2])

\* hash_init_at_rand_mem
hash_init(rands_mem, r, gamma) ==
    hash_at(eval_init_addr(rands_mem), eval_eq_x_y(r, rands_mem), 0, gamma)

(***************************************************************************)
(* sum_check_cubic_verify                                                  *)
(***************************************************************************)
CubicPolys == { <<0, 0, 0, 0>>, <<1, 0, 0, 0>>, <<0, 1, 0, 0>>, <<1, 1, 0, 1>>,
                <<0, 0, 0, 0, 1>> }

\* The round polynomials of a layer proof.
RoundPolys == IF pl = Null THEN CubicPolys ELSE { <<v, 0, 0, 0>> : v \in Fr }

cubic_frame(polys_len, num_rounds, claim) ==
    [polys_len |-> polys_len, num_rounds |-> num_rounds, claim |-> claim,
     claim_per_round |-> claim, r |-> <<>>, j |-> 0, rounds |-> <<>>]

sum_check_cubic_verify_begin ==
    /\ pc = "sum_check_cubic_verify"
    /\ checks' = Checked("cubic_polys_len", cub.polys_len = cub.num_rounds, Null)
    /\ IF cub.polys_len = cub.num_rounds
       THEN /\ pc' = "cubic_loop"
            /\ UNCHANGED <<stack, outcome, ret>>
       ELSE Panic
    /\ UNCHANGED <<transcript, cub, not_cub>>

\* One iteration of the loop over the round polynomials.
cubic_round(poly) ==
    LET t1 == append_message(transcript, "comm_poly", to_bytes_vec(poly))
        c1 == challenge_bytes(t1, "challenge_nextround")
        r_j == random_bytes_to_fr(c1.buf)
    IN  /\ transcript' = c1.tr
        /\ cub' = [cub EXCEPT !.claim_per_round = evaluate(poly, r_j),
                              !.r = Append(cub.r, r_j),
                              !.j = cub.j + 1,
                              !.rounds = Append(cub.rounds,
                                   [claim |-> cub.claim_per_round, poly |-> poly, r |-> r_j])]

sum_check_cubic_verify_round ==
    /\ pc = "cubic_loop"
    /\ cub.j < cub.polys_len
    /\ \E poly \in RoundPolys : cubic_round(poly)
    /\ UNCHANGED <<pc, stack, checks, outcome, ret, not_cub>>

sum_check_cubic_verify_return ==
    /\ pc = "cubic_loop"
    /\ cub.j >= cub.polys_len
    /\ Return([r |-> cub.r, claim_final |-> cub.claim_per_round])
    /\ UNCHANGED <<transcript, checks, cub, not_cub>>

(***************************************************************************)
(* product_circuit_eval_verify                                             *)
(***************************************************************************)
pce_frame(nlayers, claims_prod_circuit, claims_dotp_circuit, n) ==
    [n |-> n, layer_num |-> log2(n), nlayers |-> nlayers,
     claims_prod_circuit |-> claims_prod_circuit,
     claims_dotp_circuit |-> claims_dotp_circuit,
     claims_to_verify |-> claims_prod_circuit, claims_to_verify_dotp |-> <<>>,
     num_rounds |-> 0, rands |-> <<>>, i |-> 0,
     coeffs |-> <<>>, claim |-> 0, layer |-> Null, r_layer |-> 0]

product_circuit_eval_verify_begin ==
    /\ pc = "product_circuit_eval_verify"
    /\ checks' = Checked("layers_len", pce.nlayers = pce.layer_num, Null)
    /\ IF pce.nlayers = pce.layer_num
       THEN /\ pc' = "pce_loop"
            /\ UNCHANGED <<stack, outcome, ret>>
       ELSE Panic
    /\ UNCHANGED <<transcript, pce, not_pce>>

\* Lengths the list of round polynomials of a layer is drawn from.
PolysLens(num_rounds) ==
    IF pl = Null THEN {num_rounds, num_rounds + 1} \cup ({num_rounds - 1} \cap Nat)
    ELSE {num_rounds, num_rounds + 1}

\* Top of the loop body: extend the claims on the last layer, draw the combining
\* coefficients, form the target and call the cubic sumcheck.
product_circuit_eval_verify_layer ==
    /\ pc = "pce_loop"
    /\ pce.i < pce.layer_num
    /\ \E polys_len \in PolysLens(pce.num_rounds) :
        LET claims == IF pce.i = pce.layer_num - 1
                      THEN pce.claims_to_verify \o pce.claims_dotp_circuit
                      ELSE pce.claims_to_verify
            cs == challenges(transcript, "rand_coeffs_next_layer", Len(claims))
            claim == SeqSum([k \in 1 .. Len(cs.vals) |-> FMul(claims[k], cs.vals[k])])
        IN  /\ transcript' = cs.tr
            /\ pce' = [pce EXCEPT !.claims_to_verify = claims, !.coeffs = cs.vals,
                                  !.claim = claim]
            /\ cub' = cubic_frame(polys_len, pce.num_rounds, claim)
            /\ pc' = "sum_check_cubic_verify"
            /\ stack' = <<"pce_layer_check">> \o stack
    /\ UNCHANGED <<checks, outcome, ret, sc, pl, hl, ip, sp, r1, top>>

\* eq(r, rands) = prod_i r[i] * rands[i] + (1 - r[i]) * (1 - rands[i])
layer_eq(r, rands) ==
    SeqProd([k \in 1 .. Len(r) |->
                FAdd(FMul(r[k], rands[k]), FMul(FSub(1, r[k]), FSub(1, rands[k])))])

\* The loop over proof.claim_dotp on the last layer, from index k (counted from 1):
\* absorbs each triple and adds coeffs[left.len() + i] * row * col * val; stops with
\* panic set at the first index out of bounds.
RECURSIVE dotp_loop(_, _, _, _, _, _)
dotp_loop(tr, expected, k, dotp, coeffs, nleft) ==
    IF k > Len(dotp.row) THEN [tr |-> tr, expected |-> expected, panic |-> FALSE]
    ELSE LET t1 == append_message(tr, "claim_dotp_row", to_bytes(dotp.row[k]))
         IN  IF k > Len(dotp.col) THEN [tr |-> t1, expected |-> expected, panic |-> TRUE]
             ELSE LET t2 == append_message(t1, "claim_dotp_col", to_bytes(dotp.col[k]))
                  IN  IF k > Len(dotp.val)
                      THEN [tr |-> t2, expected |-> expected, panic |-> TRUE]
                      ELSE LET t3 == append_message(t2, "claim_dotp_val",
                                                    to_bytes(dotp.val[k]))
                               e == FAdd(expected,
                                         FMul(FMul(FMul(coeffs[nleft + k], dotp.row[k]),
                                                   dotp.col[k]), dotp.val[k]))
                           IN  IF nleft + k > Len(coeffs)
                               THEN [tr |-> t3, expected |-> expected, panic |-> TRUE]
                               ELSE InOrder(<<t1, t2, t3, e>>,
                                            dotp_loop(t3, e, k + 1, dotp, coeffs, nleft))

\* The expected value with the eq(r, rands) factor left out.
prod_expected_no_eq(coeffs, left, right, eq) ==
    SeqSum([k \in 1 .. Len(left) |-> FMul(coeffs[k], FMul(left[k], right[k]))])

\* sum_i coeffs[i] * left[i] * right[i] * eq
prod_expected(coeffs, left, right, eq) ==
    SeqSum([k \in 1 .. Len(left) |-> FMul(coeffs[k], FMul(FMul(left[k], right[k]), eq))])

\* The claims a layer proof is drawn from: left and right claim vectors for k product
\* claims, and the (row, col, val) lists for d auxiliary dot-product claims.
LayerClaims(k) ==
    { [left |-> l, right |-> r] : l \in {Ones(k), Zeros(k), [i \in 1 .. k |-> i % 2]},
                                  r \in {Ones(k), Zeros(k)} }
    \cup { [left |-> Ones(k + 1), right |-> Ones(k + 1)],
           [left |-> Ones(k), right |-> Ones(k + 1)] }

DotpClaims(d) ==
    { [row |-> Ones(d), col |-> Ones(d), val |-> v] : v \in {Ones(d), Zeros(d)} }
    \cup { [row |-> Ones(d + 1), col |-> Ones(d + 1), val |-> Ones(d + 1)],
           [row |-> Ones(d), col |-> Zeros(d), val |-> Zeros(d)] }
    \cup { [row |-> Ones(d - 1), col |-> Ones(d - 1), val |-> Ones(d - 1)] : x \in {1} \cap (1 .. d) }
    \cup { [row |-> Ones(d), col |-> Ones(d - 1), val |-> Ones(d)] : x \in {1} \cap (1 .. d) }

\* proof.claim_dotp is read on the last layer only.
NoDotp == [row |-> <<>>, col |-> <<>>, val |-> <<>>]

LayerProofs(k, d, last) ==
    { [left |-> lr.left, right |-> lr.right, dotp |-> dp] :
        lr \in LayerClaims(k), dp \in IF last THEN DotpClaims(d) ELSE {NoDotp} }

\* The layer proofs of the two arguments run by product_layer_verify on k claims: the
\* claims themselves against ones, zeros, vectors one too long and, on the last layer,
\* the values of the hash polynomials at the two ends of the last variable (constant
\* read hashes 1 and write hashes 2 for the operations, the init hash for the memory).
WideLayerProofs(frame, r) ==
    LET k == Len(frame.claims_prod_circuit)
        d == Len(frame.claims_dotp_circuit)
        last == frame.i = frame.layer_num - 1
        ops == d > 0
        cur == SubSeq(frame.claims_to_verify, 1, k)
        roots == [i \in 1 .. k |-> IF ((i - 1) \div 3) % 2 = 0 THEN 1 ELSE 2]
        ends(b) == [i \in 1 .. k |->
                      IF i % 2 = 0 THEN 1
                      ELSE hash_init(<<b>> \o r, IF i = 1 THEN sp.rx ELSE sp.ry, sp.gamma)]
        lrs == { [left |-> cur, right |-> Ones(k)], [left |-> Zeros(k), right |-> Zeros(k)],
                 [left |-> Ones(k + 1), right |-> Ones(k + 1)] }
               \cup { [left |-> roots, right |-> roots] : x \in {1} \cap {IF last /\ ops THEN 1 ELSE 0} }
               \cup { [left |-> ends(0), right |-> ends(1)] :
                        x \in {1} \cap {IF last /\ ~ops /\ sp # Null THEN 1 ELSE 0} }
        dotps == IF last /\ ops
                 THEN { [row |-> frame.claims_dotp_circuit, col |-> Ones(d), val |-> Ones(d)],
                        [row |-> frame.claims_dotp_circuit, col |-> Ones(d), val |-> Zeros(d)],
                        [row |-> SubSeq(frame.claims_dotp_circuit, 1, d - 1),
                         col |-> Ones(d - 1), val |-> Ones(d - 1)] }
                 ELSE {NoDotp}
    IN  { [left |-> lr.left, right |-> lr.right, dotp |-> dp] : lr \in lrs, dp \in dotps }

LayerProofsOf(frame, r) ==
    IF pl = Null
    THEN LayerProofs(Len(frame.claims_prod_circuit), Len(frame.claims_dotp_circuit),
                     frame.i = frame.layer_num - 1)
    ELSE WideLayerProofs(frame, r)

\* The layer check with the length of the right claim vector left unasserted.
layer_check_right_unchecked(tr, frame, sum, layer) ==
    LET left == layer.left
        right == layer.right
        last == frame.i = frame.layer_num - 1
        shape == /\ Len(left) = Len(frame.claims_prod_circuit)
                 /\ Len(frame.rands) = Len(sum.r)
        t1 == append_all(tr, [k \in 1 .. 2 * Len(left) |->
                                IF k % 2 = 1 THEN <<"claim_prod_left", left[(k + 1) \div 2]>>
                                             ELSE <<"claim_prod_right", right[k \div 2]>>])
        eq == layer_eq(sum.r, frame.rands)
        e1 == prod_expected(frame.coeffs, left, right, eq)
        dl == IF last THEN dotp_loop(t1, e1, 1, layer.dotp, frame.coeffs, Len(left))
                      ELSE [tr |-> t1, expected |-> e1, panic |-> FALSE]
    IN  IF ~shape
        THEN [tr |-> IF Len(left) = Len(right) /\ Len(left) = Len(frame.claims_prod_circuit)
                     THEN t1 ELSE tr,
              shape |-> FALSE, panic |-> TRUE, expected |-> 0, final |-> sum.claim_final]
        ELSE InOrder(<<t1, e1, dl>>,
                     [tr |-> dl.tr, shape |-> TRUE, panic |-> dl.panic,
                      expected |-> dl.expected, final |-> sum.claim_final])

\* Lines 778-825 for the layer proof `layer` and the sumcheck result `sum`:
\* the transcript after the layer, whether it panicked before the comparison, and
\* the two values compared.
layer_check(tr, frame, sum, layer) ==
    LET left == layer.left
        right == layer.right
        last == frame.i = frame.layer_num - 1
        shape == /\ Len(left) = Len(right)
                 /\ Len(left) = Len(frame.claims_prod_circuit)
                 /\ Len(frame.rands) = Len(sum.r)
        t1 == append_all(tr, [k \in 1 .. 2 * Len(left) |->
                                IF k % 2 = 1 THEN <<"claim_prod_left", left[(k + 1) \div 2]>>
                                             ELSE <<"claim_prod_right", right[k \div 2]>>])
        eq == layer_eq(sum.r, frame.rands)
        e1 == prod_expected(frame.coeffs, left, right, eq)
        dl == IF last THEN dotp_loop(t1, e1, 1, layer.dotp, frame.coeffs, Len(left))
                      ELSE [tr |-> t1, expected |-> e1, panic |-> FALSE]
    IN  IF ~shape
        THEN [tr |-> IF Len(left) = Len(right) /\ Len(left) = Len(frame.claims_prod_circuit)
                     THEN t1 ELSE tr,
              shape |-> FALSE, panic |-> TRUE, expected |-> 0, final |-> sum.claim_final]
        ELSE InOrder(<<t1, e1, dl>>,
                     [tr |-> dl.tr, shape |-> TRUE, panic |-> dl.panic,
                      expected |-> dl.expected, final |-> sum.claim_final])

product_circuit_eval_verify_check ==
    /\ pc = "pce_layer_check"
    /\ \E layer \in LayerProofsOf(pce, ret.r) :
        LET lc == layer_check(transcript, pce, ret, layer)
        IN  /\ transcript' = lc.tr
            /\ IF lc.panic
               THEN /\ Panic
                    /\ checks' = IF lc.shape THEN checks
                                 ELSE Checked("layer_shape", FALSE, Null)
                    /\ UNCHANGED pce
               ELSE /\ checks' = Checked("layer_claim", lc.expected = lc.final,
                                         [layer |-> pce.i, expected |-> lc.expected,
                                          final |-> lc.final, proof |-> layer,
                                          coeffs |-> pce.coeffs, r |-> ret.r,
                                          rands |-> pce.rands, target |-> pce.claim])
                    /\ IF lc.expected = lc.final
                       THEN /\ pc' = "pce_layer_reduce"
                            /\ pce' = [pce EXCEPT !.layer = layer]
                            /\ UNCHANGED <<stack, outcome, ret>>
                       ELSE /\ Panic
                            /\ UNCHANGED pce
    /\ UNCHANGED not_pce

\* The reduction with the challenge left out.
reduce_unscaled(left, right, r_layer) == FAdd(left, FSub(right, left))

\* left + r_layer * (right - left)
reduce(left, right, r_layer) == FAdd(left, FMul(r_layer, FSub(right, left)))

\* The end of a layer that keeps the sumcheck's challenges without r_layer.
product_circuit_eval_verify_reduce_without_r_layer ==
    /\ pc = "pce_layer_reduce"
    /\ LET c1 == challenge_bytes(transcript, "challenge_r_layer")
           r_layer == random_bytes_to_fr(c1.buf)
           layer == pce.layer
           last == pce.i = pce.layer_num - 1
           dotp == layer.dotp
       IN  /\ transcript' = c1.tr
           /\ pce' = [pce EXCEPT
                 !.claims_to_verify =
                     [k \in 1 .. Len(layer.left) |->
                         reduce(layer.left[k], layer.right[k], r_layer)],
                 !.claims_to_verify_dotp =
                     IF last
                     THEN [k \in 1 .. 3 * (Len(dotp.row) \div 2) |->
                             LET t == (k - 1) \div 3
                                 v == IF k % 3 = 1 THEN dotp.row
                                      ELSE IF k % 3 = 2 THEN dotp.col ELSE dotp.val
                             IN  reduce(v[2 * t + 1], v[2 * t + 2], r_layer)]
                     ELSE pce.claims_to_verify_dotp,
                 !.num_rounds = pce.num_rounds + 1,
                 !.rands = ret.r,
                 !.r_layer = r_layer,
                 !.i = pce.i + 1]
    /\ pc' = "pce_loop"
    /\ UNCHANGED <<stack, checks, outcome, ret, not_pce>>

\* The end of a layer with the number of rounds left as it was.
product_circuit_eval_verify_reduce_same_width ==
    /\ pc = "pce_layer_reduce"
    /\ LET c1 == challenge_bytes(transcript, "challenge_r_layer")
           r_layer == random_bytes_to_fr(c1.buf)
           layer == pce.layer
           last == pce.i = pce.layer_num - 1
           dotp == layer.dotp
       IN  /\ transcript' = c1.tr
           /\ pce' = [pce EXCEPT
                 !.claims_to_verify =
                     [k \in 1 .. Len(layer.left) |->
                         reduce(layer.left[k], layer.right[k], r_layer)],
                 !.claims_to_verify_dotp =
                     IF last
                     THEN [k \in 1 .. 3 * (Len(dotp.row) \div 2) |->
                             LET t == (k - 1) \div 3
                                 v == IF k % 3 = 1 THEN dotp.row
                                      ELSE IF k % 3 = 2 THEN dotp.col ELSE dotp.val
                             IN  reduce(v[2 * t + 1], v[2 * t + 2], r_layer)]
                     ELSE pce.claims_to_verify_dotp,
                 !.num_rounds = pce.num_rounds,
                 !.rands = <<r_layer>> \o ret.r,
                 !.r_layer = r_layer,
                 !.i = pce.i + 1]
    /\ pc' = "pce_loop"
    /\ UNCHANGED <<stack, checks, outcome, ret, not_pce>>

product_circuit_eval_verify_reduce ==
    /\ pc = "pce_layer_reduce"
    /\ LET c1 == challenge_bytes(transcript, "challenge_r_layer")
           r_layer == random_bytes_to_fr(c1.buf)
           layer == pce.layer
           last == pce.i = pce.layer_num - 1
           dotp == layer.dotp
       IN  /\ transcript' = c1.tr
           /\ pce' = [pce EXCEPT
                 !.claims_to_verify =
                     [k \in 1 .. Len(layer.left) |->
                         reduce(layer.left[k], layer.right[k], r_layer)],
                 !.claims_to_verify_dotp =
                     IF last
                     THEN [k \in 1 .. 3 * (Len(dotp.row) \div 2) |->
                             LET t == (k - 1) \div 3
                                 v == IF k % 3 = 1 THEN dotp.row
                                      ELSE IF k % 3 = 2 THEN dotp.col ELSE dotp.val
                             IN  reduce(v[2 * t + 1], v[2 * t + 2], r_layer)]
                     ELSE pce.claims_to_verify_dotp,
                 !.num_rounds = pce.num_rounds + 1,
                 !.rands = <<r_layer>> \o ret.r,
                 !.r_layer = r_layer,
                 !.i = pce.i + 1]
    /\ pc' = "pce_loop"
    /\ UNCHANGED <<stack, checks, outcome, ret, not_pce>>

product_circuit_eval_verify_return ==
    /\ pc = "pce_loop"
    /\ pce.i >= pce.layer_num
    /\ Return([claims |-> pce.claims_to_verify, claims_dotp |-> pce.claims_to_verify_dotp,
               rands |-> pce.rands])
    /\ UNCHANGED <<transcript, checks, pce, not_pce>>

InitPCE ==
    /\ pc = "product_circuit_eval_verify"
    /\ stack = <<>>
    /\ transcript = [d |-> 0, log |-> <<>>]
    /\ checks = <<>>
    /\ outcome = "running"
    /\ ret = Null
    /\ \E l \in 0 .. MaxLayers, k \in 1 .. MaxClaims, d \in {0, 2} :
         \E nlayers \in {l, l + 1}, claims \in Vecs(Smp, k), dotp \in {Ones(d)} :
            pce = pce_frame(nlayers, claims, dotp, Pow2(l))
    /\ sc = Null /\ cub = Null /\ pl = Null /\ hl = Null
    /\ ip = Null /\ sp = Null /\ r1 = Null /\ top = Null

NextPCE ==
    \/ product_circuit_eval_verify_begin
    \/ product_circuit_eval_verify_layer
    \/ sum_check_cubic_verify_begin
    \/ sum_check_cubic_verify_round
    \/ sum_check_cubic_verify_return
    \/ product_circuit_eval_verify_check
    \/ product_circuit_eval_verify_reduce
    \/ product_circuit_eval_verify_return

SpecPCE == InitPCE /\ [][NextPCE]_vars


(***************************************************************************)
(* inner_product_verify                                                    *)
(***************************************************************************)
\* The locals of a call inner_product_verify(params, ry, commits_witness, commit_ry, proof)
ip_frame(name, ry, commits_witness, commit_ry) ==
    [name |-> name, ry |-> ry, commits_witness |-> commits_witness, commit_ry |-> commit_ry]

DotProductProofs(rounds) ==
    [l_vec : {Zeros(rounds)} \cup {Zeros(rounds - 1) : x \in {1} \cap (1 .. rounds)},
     r_vec : {Ones(rounds)}, delta : {0}, beta : {1}, z1 : {1}, z2 : Fr]

\* SubSeq written with Rust's half-open ranges
slice(v, from, to) == SubSeq(v, from + 1, to)

\* The body of inner_product_verify after the commitment to the left half
inner_product_opening(tr, frame, commit_lz, r_eq_ry, proof) ==
    LET t2 == append_all(tr, << <<"Cx", commit_lz>>, <<"Cy", frame.commit_ry>> >>)
        gamma == FAdd(commit_lz, frame.commit_ry)
        b == bullet_inner_product_verify(Generators(Len(r_eq_ry)), proof, gamma, r_eq_ry, t2)
        t4 == append_all(b.tr, << <<"delta", proof.delta>>, <<"beta", proof.beta>> >>)
        c1 == challenge_bytes(t4, "challenge_tau")
        c  == random_bytes_to_fr(c1.buf)
        lhs == FAdd(FMul(FAdd(FMul(b.gamma_hat, c), proof.beta), b.b_s), proof.delta)
        rhs == FAdd(FMul(FAdd(b.g_hat, FMul(Generators(1)[1], b.b_s)), proof.z1),
                    FMul(GenH, proof.z2))
    IN  InOrder(<<t2, b>>,
                IF ~b.ok
                THEN [ok |-> FALSE, tr |-> b.tr, result |-> FALSE]
                ELSE InOrder(<<t4, c1>>, [ok |-> TRUE, tr |-> c1.tr, result |-> lhs = rhs]))

inner_product_verify ==
    /\ pc = "inner_product_verify"
    /\ LET size == Len(ip.ry)
           l_eq_ry == eval_eq(slice(ip.ry, 0, size \div 2))
           r_eq_ry == eval_eq(slice(ip.ry, size \div 2, size))
           t0 == append_message(transcript, "protocol-name", 1)
           commit_lz == poly_commit_vec(ip.commits_witness, l_eq_ry, GenH, 0)
       IN  IF ~commit_lz.ok
           THEN \* unwrap of a commitment over too few generators
                /\ transcript' = t0
                /\ Panic
                /\ UNCHANGED checks
           ELSE \E proof \in DotProductProofs(log2(Len(r_eq_ry))) :
                LET o == inner_product_opening(t0, ip, commit_lz.commit, r_eq_ry, proof)
                IN  IF ~o.ok
                    THEN \* unwrap of the error returned for a malformed opening
                         /\ transcript' = o.tr
                         /\ Panic
                         /\ UNCHANGED checks
                    ELSE /\ transcript' = o.tr
                         /\ checks' = Checked(ip.name, o.result, Null)
                         /\ ret' = o.result
                         /\ pc' = Head(stack)
                         /\ stack' = Tail(stack)
                         /\ UNCHANGED outcome
    /\ UNCHANGED <<ip, not_ip>>

(***************************************************************************)
(* r1cs_satisfied_verify                                                   *)
(***************************************************************************)
\* An R1CS instance: the sizes and the three sparse matrices as (row, col, val) entries
R1CSInstance(num_constraints, num_aux, num_inputs) ==
    [num_constraints |-> num_constraints, num_aux |-> num_aux, num_inputs |-> num_inputs,
     a_matrix |-> << <<0, 0, 1>> >>, b_matrix |-> << <<0, 1, 1>> >>,
     c_matrix |-> << <<0, 1, 1>>, <<0, 0, 1>> >>]

max(a, b) == IF a > b THEN a ELSE b

\* The frame with one round too many in sumcheck #1.
r1_frame_extra_round(r1cs, inputs, matrix_evals) ==
    [r1cs |-> r1cs, inputs |-> inputs, matrix_evals |-> matrix_evals,
     num_rounds_x |-> log2(r1cs.num_constraints) + 1,
     num_rounds_y |-> log2(next_power_of_two(max(r1cs.num_aux, r1cs.num_inputs))) + 1,
     commit_witness |-> <<>>, tau |-> <<>>, rx |-> <<>>, commit_eval_x |-> 0,
     kpc |-> Null, r_abc |-> <<>>, ry |-> <<>>, commit_eval_y |-> 0, commit_ry |-> 0,
     sc2_eq_proof |-> Null, tr2 |-> Null]

r1_frame(r1cs, inputs, matrix_evals) ==
    [r1cs |-> r1cs, inputs |-> inputs, matrix_evals |-> matrix_evals,
     num_rounds_x |-> log2(r1cs.num_constraints),
     num_rounds_y |-> log2(next_power_of_two(max(r1cs.num_aux, r1cs.num_inputs))) + 1,
     commit_witness |-> <<>>, tau |-> <<>>, rx |-> <<>>, commit_eval_x |-> 0,
     kpc |-> Null, r_abc |-> <<>>, ry |-> <<>>, commit_eval_y |-> 0, commit_ry |-> 0,
     sc2_eq_proof |-> Null, tr2 |-> Null]

\* Lengths of the three lists of a SumCheckProof handed to a call with n rounds
ProofShapes(n) ==
    IF top = Null THEN SumCheckShapes(n)
    ELSE { [polys |-> n, evals |-> n, proofs |-> n] }
         \cup { [polys |-> n, evals |-> n - 1, proofs |-> n] : x \in {1} \cap (1 .. n) }

CommitWitness == { <<1>>, <<>> }

\* lines 98-135
r1cs_satisfied_verify ==
    /\ pc = "r1cs_satisfied_verify"
    /\ \E commit_witness \in CommitWitness, lens \in ProofShapes(r1.num_rounds_x) :
        LET t1 == append_message(transcript, "poly_commitment", to_bytes_vec(commit_witness))
            cs == challenges(t1, "challenge_tau", r1.num_rounds_x)
            commit_claim == poly_commit_vec(Generators(1), <<0>>, GenH, 0)
        IN  /\ transcript' = cs.tr
            /\ r1' = [r1 EXCEPT !.commit_witness = commit_witness, !.tau = cs.vals]
            /\ sc' = sum_check_frame(commit_claim.commit, 4, r1.num_rounds_x, lens)
            /\ pc' = "sum_check_verify"
            /\ stack' = <<"r1cs_knowledge">> \o stack
    /\ UNCHANGED <<checks, outcome, ret, cub, pce, pl, hl, ip, sp, top>>

\* The knowledge proof with its result left unasserted.
r1cs_knowledge_unchecked ==
    /\ pc = "r1cs_knowledge"
    /\ \E proof \in KnowledgeProofs, vc_commit \in {1} :
        LET k == knowledge_verify(proof, vc_commit, transcript)
        IN  /\ transcript' = k.tr
            /\ checks' = Checked("knowledge_verify", k.result, Null)
            /\ r1' = [r1 EXCEPT !.rx = ret.rx, !.commit_eval_x = ret.commit_claim,
                                !.kpc = [vc_commit |-> vc_commit]]
            /\ pc' = "r1cs_product"
            /\ UNCHANGED <<stack, outcome, ret>>
    /\ UNCHANGED <<sc, cub, pce, pl, hl, ip, sp, top>>

\* lines 126-144
r1cs_knowledge ==
    /\ pc = "r1cs_knowledge"
    /\ \E proof \in KnowledgeProofs, vc_commit \in {1} :
        LET k == knowledge_verify(proof, vc_commit, transcript)
        IN  /\ transcript' = k.tr
            /\ checks' = Checked("knowledge_verify", k.result, Null)
            /\ r1' = [r1 EXCEPT !.rx = ret.rx, !.commit_eval_x = ret.commit_claim,
                                !.kpc = [vc_commit |-> vc_commit]]
            /\ IF k.result
               THEN /\ pc' = "r1cs_product"
                    /\ UNCHANGED <<stack, outcome, ret>>
               ELSE Panic
    /\ UNCHANGED <<sc, cub, pce, pl, hl, ip, sp, top>>

\* lines 146-155
r1cs_product ==
    /\ pc = "r1cs_product"
    /\ \E proof \in ProductProofs, va_commit \in {1}, vb_commit \in {1}, prod_commit \in Smp :
        LET p == product_verify(proof, va_commit, vb_commit, prod_commit, transcript)
        IN  /\ transcript' = p.tr
            /\ r1' = [r1 EXCEPT !.kpc = [vc_commit |-> r1.kpc.vc_commit, va_commit |-> va_commit,
                                         vb_commit |-> vb_commit, prod_commit |-> prod_commit]]
            /\ IF p.panic
               THEN /\ Panic
                    /\ UNCHANGED checks
               ELSE /\ checks' = Checked("product_verify", p.result, Null)
                    /\ IF p.result
                       THEN /\ pc' = "r1cs_eq_one"
                            /\ UNCHANGED <<stack, outcome, ret>>
                       ELSE Panic
    /\ UNCHANGED <<sc, cub, pce, pl, hl, ip, sp, top>>

\* lines 157-226
r1cs_eq_one ==
    /\ pc = "r1cs_eq_one"
    /\ \E proof \in EqProofs, lens \in ProofShapes(r1.num_rounds_y) :
        LET kpc == r1.kpc
            t4 == append_all(transcript,
                     << <<"comm_Az_claim", kpc.va_commit>>, <<"comm_Bz_claim", kpc.vb_commit>>,
                        <<"comm_Cz_claim", kpc.vc_commit>>,
                        <<"comm_prod_Az_Bz_claims", kpc.prod_commit>> >>)
            eval_rx_tau == eval_eq_x_y(r1.rx, r1.tau)
            claim_commit_phase_one ==
                FMul(FSub(kpc.prod_commit, kpc.vc_commit), eval_rx_tau)
            e == eq_verify(claim_commit_phase_one, r1.commit_eval_x, proof, t4)
            ca == challenge_bytes(e.tr, "challenege_Az")
            cb == challenge_bytes(ca.tr, "challenege_Bz")
            cc == challenge_bytes(cb.tr, "challenege_Cz")
            r_a == random_bytes_to_fr(ca.buf)
            r_b == random_bytes_to_fr(cb.buf)
            r_c == random_bytes_to_fr(cc.buf)
            claim_commit_two ==
                FAdd(FAdd(FMul(kpc.va_commit, r_a), FMul(kpc.vb_commit, r_b)),
                     FMul(kpc.vc_commit, r_c))
        IN  /\ checks' = Checked("sc1_eq_verify", e.result, Null)
            /\ IF e.result
               THEN /\ transcript' = cc.tr
                    /\ r1' = [r1 EXCEPT !.r_abc = <<r_a, r_b, r_c>>]
                    /\ sc' = sum_check_frame(claim_commit_two, 3, r1.num_rounds_y, lens)
                    /\ pc' = "sum_check_verify"
                    /\ stack' = <<"r1cs_open_witness">> \o stack
                    /\ UNCHANGED <<outcome, ret>>
               ELSE /\ transcript' = e.tr
                    /\ Panic
                    /\ UNCHANGED <<r1, sc>>
    /\ UNCHANGED <<cub, pce, pl, hl, ip, sp, top>>

\* lines 217-236; num_rounds_y >= 1, so ry[1..] exists
r1cs_open_witness ==
    /\ pc = "r1cs_open_witness"
    /\ \E commit_ry \in {1} :
        /\ r1' = [r1 EXCEPT !.ry = ret.rx, !.commit_eval_y = ret.commit_claim,
                            !.commit_ry = commit_ry]
        /\ ip' = ip_frame("witness_opening", Tail(ret.rx), r1.commit_witness, commit_ry)
        /\ pc' = "inner_product_verify"
        /\ stack' = <<"r1cs_phase_two">> \o stack
    /\ UNCHANGED <<transcript, checks, outcome, ret, sc, cub, pce, pl, hl, sp, top>>

\* Lines 239-269 for the public inputs `inputs` and the equality proof `proof`, from
\* the transcript tr: whether the padding length underflows, the transcript after the
\* equality proof, and its result.
phase_two(frame, inputs, proof, tr) ==
    LET ry == frame.ry
        rest == Tail(ry)
        padding == Pow2(Len(rest)) - Len(inputs) - 1
        public_inputs == <<1>> \o inputs \o Zeros(padding)
        eval_input_tau == evaluate_value(public_inputs, rest)
        commit_input == poly_commit_vec(Generators(1), <<eval_input_tau>>, GenH, 0)
        commit_eval_z == FAdd(FMul(frame.commit_ry, FSub(1, ry[1])),
                              FMul(commit_input.commit, ry[1]))
        ev == frame.matrix_evals
        rr == frame.r_abc
        claim_commit_phase_two ==
            FMul(commit_eval_z,
                 FAdd(FAdd(FMul(ev[1], rr[1]), FMul(ev[2], rr[2])), FMul(ev[3], rr[3])))
        e == eq_verify(claim_commit_phase_two, frame.commit_eval_y, proof, tr)
    IN  IF padding < 0
        THEN [panic |-> TRUE, tr |-> tr, result |-> FALSE]
        ELSE [panic |-> FALSE, tr |-> e.tr, result |-> e.result]

\* How lines 237-271 end for the result p of phase_two: assert!(result) lets only a
\* true result through.
phase_two_end(p) == IF p.panic \/ ~p.result THEN "panic" ELSE "Ok"

\* lines 228-271
r1cs_phase_two ==
    /\ pc = "r1cs_phase_two"
    /\ IF ~ret
       THEN \* assert!(result) on the witness opening
            /\ Panic
            /\ UNCHANGED <<transcript, checks, r1>>
       ELSE \E proof \in EqProofs :
            LET p == phase_two(r1, r1.inputs, proof, transcript)
            IN  /\ transcript' = p.tr
                /\ r1' = [r1 EXCEPT !.sc2_eq_proof = proof, !.tr2 = transcript]
                /\ IF p.panic
                   THEN \* the subtraction of usize values overflows
                        /\ Panic
                        /\ checks' = Checked("padding_len", FALSE, Null)
                   ELSE /\ checks' = Checked("sc2_eq_verify", p.result, Null)
                        /\ IF phase_two_end(p) = "Ok"
                           THEN Return([result |-> p.result, rx |-> r1.rx, ry |-> r1.ry])
                           ELSE Panic
    /\ UNCHANGED <<sc, cub, pce, pl, hl, ip, sp, top>>

(***************************************************************************)
(* nizk_verify                                                             *)
(***************************************************************************)
\* Transcript::new(label)
new_transcript(label) == [d |-> LabelCode(label) % TMod, log |-> <<>>]

\* The evaluation points a NIZK proof carries in proof.r
ProofPoints(r1cs) ==
    LET nx == log2(r1cs.num_constraints)
        ny == log2(next_power_of_two(max(r1cs.num_aux, r1cs.num_inputs))) + 1
    IN  { <<Zeros(nx), Zeros(ny)>>, <<Ones(nx), Ones(ny)>> }

\* lines 33-47
nizk_verify ==
    /\ pc = "nizk_verify"
    /\ \E r \in ProofPoints(top.r1cs) :
        LET eval_a_r == evaluate_mle(top.r1cs.a_matrix, r[1], r[2])
            eval_b_r == evaluate_mle(top.r1cs.b_matrix, r[1], r[2])
            eval_c_r == evaluate_mle(top.r1cs.c_matrix, r[1], r[2])
        IN  /\ r1' = r1_frame(top.r1cs, top.inputs, <<eval_a_r, eval_b_r, eval_c_r>>)
            /\ top' = [top EXCEPT !.proof_r = r]
    /\ transcript' = new_transcript("Spartan NIZK proof")
    /\ pc' = "r1cs_satisfied_verify"
    /\ stack' = <<"nizk_return">> \o stack
    /\ UNCHANGED <<checks, outcome, ret, sc, cub, pce, pl, hl, ip, sp>>

\* lines 47-49
nizk_return ==
    /\ pc = "nizk_return"
    /\ Return([ok |-> TRUE, value |-> ret.result])
    /\ UNCHANGED <<transcript, checks, frames>>

(***************************************************************************)
(* product_layer_verify                                                    *)
(***************************************************************************)
\* A sequence of comparisons [name, ok, oob] run in order stops at the first one that
\* fails or indexes out of bounds: the comparisons evaluated, and whether it stopped.
RECURSIVE executed(_)
executed(cmps) ==
    IF cmps = <<>> THEN <<>>
    ELSE IF cmps[1].oob THEN <<>>
    ELSE IF ~cmps[1].ok THEN <<cmps[1]>>
    ELSE <<cmps[1]>> \o executed(Tail(cmps))

stopped(cmps) == \E k \in DOMAIN cmps : cmps[k].oob \/ ~cmps[k].ok

\* The sub-checks of cmps that ran, added to the log of sub-checks.
RECURSIVE log_all(_, _)
log_all(log, cmps) ==
    IF cmps = <<>> THEN log
    ELSE log_all(Append(log, [name |-> cmps[1].name, ok |-> cmps[1].ok,
                              info |-> cmps[1].info]), Tail(cmps))

Logged(cmps) == log_all(checks, executed(cmps))

Cmp(name, ok, info) == [name |-> name, ok |-> ok, oob |-> FALSE, info |-> info]
Oob == [name |-> "index", ok |-> FALSE, oob |-> TRUE, info |-> Null]

\* The identity with the audit claim left out.
memory_identity_no_audit(init, read_list, write_list, audit) ==
    FMul(init, SeqProd(write_list)) = SeqProd(read_list)

\* init * prod(write) == prod(read) * audit
memory_identity(init, read_list, write_list, audit) ==
    FMul(init, SeqProd(write_list)) = FMul(SeqProd(read_list), audit)

\* The claims of one memory carried by a ProductLayerProof: the trace the prover of a
\* consistent memory sends, the same with one read changed, another consistent trace,
\* and lists of the wrong length.
MemoryEvals ==
    LET w == (4 % Q)
        a == (64 % Q)
    IN  { [init |-> 1, read |-> <<1, 1, 1>>, write |-> <<w, w, w>>, audit |-> a],
          [init |-> 1, read |-> <<1, 2, 1>>, write |-> <<w, w, w>>, audit |-> a],
          [init |-> 2, read |-> <<1, 1, 2>>, write |-> <<1, 1, 1>>, audit |-> 1],
          [init |-> 1, read |-> <<1, 1, 1>>, write |-> <<1, 1, 1>>, audit |-> 2],
          [init |-> 1, read |-> <<1, 1>>, write |-> <<w, w, w>>, audit |-> a],
          [init |-> 1, read |-> <<1, 1, 1>>, write |-> <<w, w, w, 1>>, audit |-> a] }

RowEvals ==
    IF top = Null THEN MemoryEvals
    ELSE {e \in MemoryEvals : e.init = 1 /\ Len(e.write) = 3 /\ e.audit = 64 % Q}

ColumnEvals ==
    IF top = Null THEN MemoryEvals
    ELSE {e \in MemoryEvals : e.init = 1 /\ Len(e.write) = 3 /\ Len(e.read) = 3}

\* proof.eval_dotp for the claimed evaluations evals
DotpEvals(evals) ==
    { [left |-> evals, right |-> Zeros(Len(evals))],
      [left |-> evals, right |-> [i \in 1 .. Len(evals) |-> IF i = 2 THEN 1 ELSE 0]],
      [left |-> SubSeq(evals, 1, 2), right |-> Zeros(2)] }

pl_frame(n, m, evals) ==
    [n |-> n, m |-> m, evals |-> evals, eval_row |-> Null, eval_col |-> Null,
     eval_dotp |-> Null, ops |-> Null]

\* The dot-product claims absorbed without comparing their sums with evals.
RECURSIVE dotp_sums_unchecked(_, _, _, _)
dotp_sums_unchecked(tr, dotp, evals, i) ==
    IF i > Len(dotp.left) THEN [tr |-> tr, cmps |-> <<>>]
    ELSE IF i > Len(dotp.right) \/ i > Len(evals) THEN [tr |-> tr, cmps |-> <<Oob>>]
    ELSE LET t2 == append_all(tr, << <<"claim_eval_dotp_left", dotp.left[i]>>,
                                     <<"claim_eval_dotp_right", dotp.right[i]>> >>)
             rest == dotp_sums_unchecked(t2, dotp, evals, i + 1)
         IN  InOrder(<<t2, rest>>,
                     [tr |-> rest.tr, cmps |-> <<Cmp("dotp_sum", TRUE, i)>> \o rest.cmps])

\* Lines 638-704: the transcript and the comparisons made up to the first failure.
RECURSIVE dotp_sums(_, _, _, _)
dotp_sums(tr, dotp, evals, i) ==
    IF i > Len(dotp.left) THEN [tr |-> tr, cmps |-> <<>>]
    ELSE IF i > Len(dotp.right) \/ i > Len(evals) THEN [tr |-> tr, cmps |-> <<Oob>>]
    ELSE LET ok == FAdd(dotp.left[i], dotp.right[i]) = evals[i]
             t2 == append_all(tr, << <<"claim_eval_dotp_left", dotp.left[i]>>,
                                     <<"claim_eval_dotp_right", dotp.right[i]>> >>)
             rest == dotp_sums(t2, dotp, evals, i + 1)
         IN  IF ok
             THEN InOrder(<<t2, rest>>,
                          [tr |-> rest.tr, cmps |-> <<Cmp("dotp_sum", TRUE, i)>> \o rest.cmps])
             ELSE [tr |-> tr, cmps |-> <<Cmp("dotp_sum", FALSE, i)>>]

memory_appends(tr, mem, e) ==
    LET t1 == append_message(tr, IF mem = "row" THEN "claim_row_eval_init"
                                 ELSE "claim_col_eval_init", to_bytes(e.init))
        t2 == append_message(t1, IF mem = "row" THEN "claim_row_eval_read"
                                 ELSE "claim_col_eval_read", to_bytes_vec(e.read))
        t3 == append_message(t2, IF mem = "row" THEN "claim_row_eval_write"
                                 ELSE "claim_col_eval_write", to_bytes_vec(e.write))
    IN  InOrder(<<t1, t2, t3>>,
                append_message(t3, IF mem = "row" THEN "claim_row_eval_audit"
                                   ELSE "claim_col_eval_audit", to_bytes(e.audit)))

product_layer_checks(tr, row, col, dotp, evals) ==
    LET t0 == append_message(tr, "protocol-name", 3)
        shape == /\ Len(row.read) = 3 /\ Len(row.write) = 3
                 /\ Len(col.read) = 3 /\ Len(col.write) = 3
                 /\ Len(dotp.left) = 3 /\ Len(dotp.right) = 3 /\ Len(evals) = 3
        row_ok == memory_identity(row.init, row.read, row.write, row.audit)
        col_ok == memory_identity(col.init, col.read, col.write, col.audit)
        t1 == memory_appends(t0, "row", row)
        t2 == memory_appends(t1, "col", col)
        ds == dotp_sums(t2, dotp, evals, 1)
    IN  IF ~shape THEN [tr |-> t0, cmps |-> <<Cmp("product_layer_shape", FALSE, Null)>>]
        ELSE IF ~row_ok
        THEN [tr |-> t0, cmps |-> <<Cmp("product_layer_shape", TRUE, Null),
                                    Cmp("row_identity", FALSE, Null)>>]
        ELSE IF ~col_ok
        THEN [tr |-> t1, cmps |-> <<Cmp("product_layer_shape", TRUE, Null),
                                    Cmp("row_identity", TRUE, Null),
                                    Cmp("col_identity", FALSE, Null)>>]
        ELSE InOrder(<<t0, t1, t2, ds>>,
                     [tr |-> ds.tr, cmps |-> <<Cmp("product_layer_shape", TRUE, Null),
                                               Cmp("row_identity", TRUE, Null),
                                               Cmp("col_identity", TRUE, Null)>> \o ds.cmps])

\* claims_dotp_circuit: left and right of each dot product, interleaved
interleave(left, right) ==
    [k \in 1 .. 2 * Len(left) |-> IF k % 2 = 1 THEN left[(k + 1) \div 2] ELSE right[k \div 2]]

\* lines 638-719
product_layer_verify ==
    /\ pc = "product_layer_verify"
    /\ \E row \in RowEvals, col \in ColumnEvals, dotp \in DotpEvals(pl.evals),
          nlayers \in {log2(pl.n), log2(pl.n) + 1} :
        LET c == product_layer_checks(transcript, row, col, dotp, pl.evals)
        IN  /\ transcript' = c.tr
            /\ checks' = Logged(c.cmps)
            /\ pl' = [pl EXCEPT !.eval_row = row, !.eval_col = col, !.eval_dotp = dotp]
            /\ IF stopped(c.cmps)
               THEN /\ Panic
                    /\ UNCHANGED pce
               ELSE /\ pce' = pce_frame(nlayers,
                                        row.read \o row.write \o col.read \o col.write,
                                        interleave(dotp.left, dotp.right), pl.n)
                    /\ pc' = "product_circuit_eval_verify"
                    /\ stack' = <<"product_layer_memory">> \o stack
                    /\ UNCHANGED <<outcome, ret>>
    /\ UNCHANGED <<sc, cub, hl, ip, sp, r1, top>>

\* lines 712-727
product_layer_memory ==
    /\ pc = "product_layer_memory"
    /\ \E nlayers \in {log2(pl.m), log2(pl.m) + 1} :
        /\ pl' = [pl EXCEPT !.ops = ret]
        /\ pce' = pce_frame(nlayers,
                            <<pl.eval_row.init, pl.eval_row.audit,
                              pl.eval_col.init, pl.eval_col.audit>>,
                            <<>>, pl.m)
        /\ pc' = "product_circuit_eval_verify"
        /\ stack' = <<"product_layer_return">> \o stack
    /\ UNCHANGED <<transcript, checks, outcome, ret, sc, cub, hl, ip, sp, r1, top>>

\* lines 720-736
product_layer_return ==
    /\ pc = "product_layer_return"
    /\ Return([claims_ops |-> pl.ops.claims, claims_ops_dotp |-> pl.ops.claims_dotp,
               ops_rands |-> pl.ops.rands, claims_mem |-> ret.claims,
               claims_mem_dotp |-> ret.claims_dotp, mem_rands |-> ret.rands])
    /\ UNCHANGED <<transcript, checks, frames>>

(***************************************************************************)
(* behind_verify_for_timestamp and hash_layer_verify                       *)
(***************************************************************************)
\* The comparisons of behind_verify_for_timestamp in the order the code makes them:
\* the init hash, one read hash and one write hash per entry of eval_addr_ops_list,
\* the audit hash.  claims = [init, read, write, audit].
behind_verify_for_timestamp(mem, rands_mem, claims, r, eval_ops_val, addrs, ts, audit_ts, gamma) ==
    LET init == hash_init(rands_mem, r, gamma)
        eval_addr_ops_list == addrs
        eval_read_ts_list == ts
        eval_audit_ts_val == audit_ts
        len == Len(eval_addr_ops_list)
        inside(i) == i <= Len(eval_ops_val) /\ i <= Len(eval_read_ts_list)
        read(i) ==
            IF ~inside(i) \/ i > Len(claims.read) THEN Oob
            ELSE Cmp("hash_read",
                     claims.read[i] = hash_at(eval_addr_ops_list[i], eval_ops_val[i],
                                              eval_read_ts_list[i], gamma),
                     <<mem, i>>)
        write(i) ==
            IF ~inside(i) \/ i > Len(claims.write) THEN Oob
            ELSE Cmp("hash_write",
                     claims.write[i] = hash_at(eval_addr_ops_list[i], eval_ops_val[i],
                                               FAdd(eval_read_ts_list[i], 1), gamma),
                     <<mem, i>>)
    IN  <<Cmp("hash_init", claims.init = init, <<mem, 0>>)>>
        \o [i \in 1 .. len |-> read(i)]
        \o [i \in 1 .. len |-> write(i)]
        \o <<Cmp("hash_audit", claims.audit = FAdd(init, eval_audit_ts_val), <<mem, 0>>)>>

\* The frame of hash_layer_verify with the row and the column claims exchanged.
hl_frame_swapped_memories(r, rands, gamma, claims_row, claims_col, claims_dotp, derefs_commit) ==
    [r |-> r, rands |-> rands, gamma |-> gamma, claims_row |-> claims_col,
     claims_col |-> claims_row, claims_dotp |-> claims_dotp,
     derefs_commit |-> derefs_commit, ops_commit |-> Ones(4), mem_commit |-> Ones(2),
     evals_derefs |-> Null, evals_val |-> Null, evals_row |-> Null, evals_col |-> Null]

hl_frame(r, rands, gamma, claims_row, claims_col, claims_dotp, derefs_commit) ==
    [r |-> r, rands |-> rands, gamma |-> gamma, claims_row |-> claims_row,
     claims_col |-> claims_col, claims_dotp |-> claims_dotp,
     derefs_commit |-> derefs_commit, ops_commit |-> Ones(4), mem_commit |-> Ones(2),
     evals_derefs |-> Null, evals_val |-> Null, evals_row |-> Null, evals_col |-> Null]

\* entries 3 * i + j of claims_dotp for i = 0, 1, 2
every_third(v, j) == [i \in 1 .. 3 |-> v[3 * (i - 1) + j + 1]]

\* proof.evals_derefs: the row and column evaluations the dot-product claims name,
\* the same with one value changed, and lists of other lengths
EvalsDerefs(claims_dotp) ==
    LET row == every_third(claims_dotp, 0)
        col == every_third(claims_dotp, 1)
    IN  { <<row, col>>, <<[row EXCEPT ![2] = FAdd(row[2], 1)], col>>,
          <<SubSeq(row, 1, 2), col>>, <<SubSeq(row, 1, 2), SubSeq(col, 1, 2)>> }

EvalsVal(claims_dotp) ==
    LET val == every_third(claims_dotp, 2)
    IN  { val, [val EXCEPT ![3] = FAdd(val[3], 1)], SubSeq(val, 1, 2) }

\* joint evaluation of a table whose length is a power of two
joint(tr, label_evals, label_challenge, label_claim, evals) ==
    LET t1 == append_message(tr, label_evals, to_bytes_vec(evals))
        cs == challenges(t1, label_challenge, log2(Len(evals)))
        poly_evals == bound_all(evals, cs.vals)
        t2 == append_message(cs.tr, label_claim, to_bytes(poly_evals[1]))
    IN  [tr |-> t2, cs |-> cs.vals, claim_eval |-> poly_evals[1],
         commit |-> poly_commit_vec(Generators(1), <<poly_evals[1]>>, GenH, 0).commit]

\* lines 891-945
hash_layer_verify ==
    /\ pc = "hash_layer_verify"
    /\ \E derefs \in EvalsDerefs(resize(hl.claims_dotp, 9)) :
        LET t0 == append_message(transcript, "protocol-name", 4)
            cmps == <<Cmp("claims_dotp_len", Len(hl.claims_dotp) = 9, Null),
                      Cmp("evals_derefs_len",
                          Len(derefs[1]) = Len(derefs[2]) /\ Len(derefs[1]) = 3, Null)>>
            evals == resize(derefs[1] \o derefs[2],
                            next_power_of_two(Len(derefs[1]) + Len(derefs[2])))
            t1 == append_message(t0, "protocol-name", 5)
            j == joint(t1, "evals_ops_val", "challenge_combine_n_to_one",
                       "joint_claim_eval", evals)
        IN  /\ checks' = Logged(cmps)
            /\ IF stopped(cmps)
               THEN /\ transcript' = t0
                    /\ Panic
                    /\ UNCHANGED <<hl, ip>>
               ELSE /\ transcript' = j.tr
                    /\ hl' = [hl EXCEPT !.evals_derefs = derefs]
                    /\ ip' = ip_frame("derefs_opening", j.cs \o hl.rands[1],
                                      hl.derefs_commit, j.commit)
                    /\ pc' = "inner_product_verify"
                    /\ stack' = <<"hash_layer_ops">> \o stack
                    /\ UNCHANGED <<outcome, ret>>
    /\ UNCHANGED <<sc, cub, pce, pl, sp, r1, top>>

\* The comparisons of lines 948-953
dotp_evals(claims_dotp, derefs, eval_val_list) ==
    <<Cmp("evals_val_len", Len(eval_val_list) = 3, Null)>>
    \o [k \in 1 .. 9 |->
          LET i == (k - 1) \div 3 + 1
              v == IF k % 3 = 1 THEN derefs[1] ELSE IF k % 3 = 2 THEN derefs[2]
                   ELSE eval_val_list
          IN  IF i > Len(v) THEN Oob ELSE Cmp("dotp_eval", claims_dotp[k] = v[i], k)]

\* proof.evals_row / proof.evals_col for the claims of one memory: the timestamps
\* that make every hash agree, the same with the last timestamp changed, and the same
\* evaluations with the address list cut after two entries.
EvalsMemory(claims, ops_val, rands_mem, r, gamma) ==
    LET ts == [i \in 1 .. 3 |-> FSub(claims.read[i], hash_at(0, ops_val[i], 0, gamma))]
        audit == FSub(claims.audit, hash_init(rands_mem, r, gamma))
    IN  { [addr |-> Zeros(3), read_ts |-> ts, audit_ts |-> audit],
          [addr |-> Zeros(3), read_ts |-> [ts EXCEPT ![3] = FAdd(ts[3], 1)],
           audit_ts |-> audit],
          [addr |-> Zeros(2), read_ts |-> <<ts[1], ts[2], 0, ts[3]>>, audit_ts |-> audit] }
        \cup { e \in { [addr |-> Zeros(4), read_ts |-> ts, audit_ts |-> audit],
                        [addr |-> Zeros(3), read_ts |-> ts, audit_ts |-> FAdd(audit, 1)] } :
                 top = Null }

ColumnEvalsMemory(claims, ops_val, rands_mem, r, gamma) ==
    IF top = Null THEN EvalsMemory(claims, ops_val, rands_mem, r, gamma)
    ELSE {e \in EvalsMemory(claims, ops_val, rands_mem, r, gamma) : Len(e.addr) = 3}

\* lines 946-1005
hash_layer_ops ==
    /\ pc = "hash_layer_ops"
    /\ IF ~ret
       THEN \* assert!(result) on the opening of the derefs
            /\ Panic
            /\ UNCHANGED <<transcript, checks, hl, ip>>
       ELSE \E eval_val_list \in EvalsVal(hl.claims_dotp),
               row \in EvalsMemory(hl.claims_row, hl.evals_derefs[1], hl.rands[2],
                                   hl.r[1], hl.gamma),
               col \in ColumnEvalsMemory(hl.claims_col, hl.evals_derefs[2], hl.rands[2],
                                         hl.r[2], hl.gamma) :
            LET cmps == dotp_evals(hl.claims_dotp, hl.evals_derefs, eval_val_list)
                list == row.addr \o row.read_ts \o col.addr \o col.read_ts \o eval_val_list
                evals_ops == resize(list, next_power_of_two(Len(list)))
                j == joint(transcript, "claim_evals_ops", "challenge_combine_n_to_one",
                           "joint_claim_eval_ops", evals_ops)
            IN  /\ checks' = Logged(cmps)
                /\ IF stopped(cmps)
                   THEN /\ Panic
                        /\ UNCHANGED <<transcript, hl, ip>>
                   ELSE /\ transcript' = j.tr
                        /\ hl' = [hl EXCEPT !.evals_val = eval_val_list,
                                            !.evals_row = row, !.evals_col = col]
                        /\ ip' = ip_frame("ops_opening", j.cs \o hl.rands[1],
                                          hl.ops_commit, j.commit)
                        /\ pc' = "inner_product_verify"
                        /\ stack' = <<"hash_layer_mem">> \o stack
                        /\ UNCHANGED <<outcome, ret>>
    /\ UNCHANGED <<sc, cub, pce, pl, sp, r1, top>>

\* lines 1006-1048
hash_layer_mem ==
    /\ pc = "hash_layer_mem"
    /\ IF ~ret
       THEN \* assert!(result) on the opening of the operations
            /\ Panic
            /\ UNCHANGED <<transcript, ip>>
       ELSE LET evals_mem == <<hl.evals_row.audit_ts, hl.evals_col.audit_ts>>
                j == joint(transcript, "claim_evals_mem", "challenge_combine_two_to_one",
                           "joint_claim_eval_mem", evals_mem)
            IN  /\ transcript' = j.tr
                /\ ip' = ip_frame("mem_opening", j.cs \o hl.rands[2], hl.mem_commit, j.commit)
                /\ pc' = "inner_product_verify"
                /\ stack' = <<"hash_layer_row">> \o stack
                /\ UNCHANGED <<outcome, ret>>
    /\ UNCHANGED <<checks, hl, sc, cub, pce, pl, sp, r1, top>>

\* The row comparisons with the column comparisons run whatever their result.
hash_layer_row_no_stop ==
    /\ pc = "hash_layer_row"
    /\ ret
    /\ LET cmps == behind_verify_for_timestamp("row", hl.rands[2], hl.claims_row,
                        hl.r[1], hl.evals_derefs[1], hl.evals_row.addr,
                        hl.evals_row.read_ts, hl.evals_row.audit_ts, hl.gamma)
       IN  checks' = Logged(cmps)
    /\ pc' = "hash_layer_col"
    /\ UNCHANGED <<stack, outcome, ret, transcript, frames>>

\* lines 1049-1062
hash_layer_row ==
    /\ pc = "hash_layer_row"
    /\ IF ~ret
       THEN \* assert!(result) on the opening of the memory
            /\ Panic
            /\ UNCHANGED checks
       ELSE LET cmps == behind_verify_for_timestamp("row", hl.rands[2], hl.claims_row,
                            hl.r[1], hl.evals_derefs[1], hl.evals_row.addr,
                            hl.evals_row.read_ts, hl.evals_row.audit_ts, hl.gamma)
            IN  /\ checks' = Logged(cmps)
                /\ IF stopped(cmps)
                   THEN Panic
                   ELSE /\ pc' = "hash_layer_col"
                        /\ UNCHANGED <<stack, outcome, ret>>
    /\ UNCHANGED <<transcript, frames>>

\* lines 1063-1077
hash_layer_col ==
    /\ pc = "hash_layer_col"
    /\ LET cmps == behind_verify_for_timestamp("col", hl.rands[2], hl.claims_col,
                        hl.r[2], hl.evals_derefs[2], hl.evals_col.addr,
                        hl.evals_col.read_ts, hl.evals_col.audit_ts, hl.gamma)
       IN  /\ checks' = Logged(cmps)
           /\ IF stopped(cmps)
              THEN /\ Panic
              ELSE /\ Return([ok |-> TRUE])
    /\ UNCHANGED <<transcript, frames>>

(***************************************************************************)
(* sparse_poly_eval_verify                                                 *)
(***************************************************************************)
sp_frame(n, m, r, evals) ==
    [n |-> n, m |-> m, rx |-> equalize_length(r[1], r[2])[1],
     ry |-> equalize_length(r[1], r[2])[2], evals |-> evals,
     gamma |-> <<>>, derefs_commit |-> <<>>]

\* proof.derefs_commit
DerefsCommits == { Ones(4) }

\* The entry with the memory size compared after gamma was drawn.
sparse_poly_eval_verify_late_size_check ==
    /\ pc = "sparse_poly_eval_verify"
    /\ \E derefs_commit \in DerefsCommits :
        LET t0 == append_message(transcript, "protocol-name", 2)
            size_ok == Pow2(Len(sp.rx)) = sp.m
            t1 == append_message(t0, "comm_poly_row_col_ops_val", to_bytes_vec(derefs_commit))
            gamma == challenges(t1, "challenge_gamma_hash", 2)
        IN  /\ checks' = Checked("memory_size", size_ok, Null)
            /\ transcript' = gamma.tr
            /\ IF ~size_ok
               THEN /\ Panic
                    /\ UNCHANGED <<sp, pl>>
               ELSE /\ sp' = [sp EXCEPT !.gamma = gamma.vals, !.derefs_commit = derefs_commit]
                    /\ pl' = pl_frame(sp.n, sp.m, sp.evals)
                    /\ pc' = "product_layer_verify"
                    /\ stack' = <<"sparse_poly_eval_hash">> \o stack
                    /\ UNCHANGED <<outcome, ret>>
    /\ UNCHANGED <<sc, cub, pce, hl, ip, r1, top>>

\* lines 547-581
sparse_poly_eval_verify ==
    /\ pc = "sparse_poly_eval_verify"
    /\ \E derefs_commit \in DerefsCommits :
        LET t0 == append_message(transcript, "protocol-name", 2)
            size_ok == Pow2(Len(sp.rx)) = sp.m
            t1 == append_message(t0, "comm_poly_row_col_ops_val", to_bytes_vec(derefs_commit))
            gamma == challenges(t1, "challenge_gamma_hash", 2)
        IN  /\ checks' = Checked("memory_size", size_ok, Null)
            /\ IF ~size_ok
               THEN /\ transcript' = t0
                    /\ Panic
                    /\ UNCHANGED <<sp, pl>>
               ELSE /\ transcript' = gamma.tr
                    /\ sp' = [sp EXCEPT !.gamma = gamma.vals, !.derefs_commit = derefs_commit]
                    /\ pl' = pl_frame(sp.n, sp.m, sp.evals)
                    /\ pc' = "product_layer_verify"
                    /\ stack' = <<"sparse_poly_eval_hash">> \o stack
                    /\ UNCHANGED <<outcome, ret>>
    /\ UNCHANGED <<sc, cub, pce, hl, ip, r1, top>>

\* lines 573-615
sparse_poly_eval_hash ==
    /\ pc = "sparse_poly_eval_hash"
    /\ LET cmps == <<Cmp("claims_mem_len", Len(ret.claims_mem) = 4, Null),
                     Cmp("claims_ops_len", Len(ret.claims_ops) = 12, Null),
                     Cmp("claims_ops_dotp_len", Len(ret.claims_ops_dotp) = 9, Null)>>
           ops == ret.claims_ops
           mem == ret.claims_mem
       IN  /\ checks' = Logged(cmps)
           /\ IF stopped(cmps)
              THEN /\ Panic
                   /\ UNCHANGED hl
              ELSE /\ hl' = hl_frame(<<sp.rx, sp.ry>>, <<ret.ops_rands, ret.mem_rands>>,
                                     sp.gamma,
                                     [init |-> mem[1], read |-> slice(ops, 0, 3),
                                      write |-> slice(ops, 3, 6), audit |-> mem[2]],
                                     [init |-> mem[3], read |-> slice(ops, 6, 9),
                                      write |-> slice(ops, 9, 12), audit |-> mem[4]],
                                     ret.claims_ops_dotp, sp.derefs_commit)
                   /\ pc' = "hash_layer_verify"
                   /\ stack' = <<"sparse_poly_eval_return">> \o stack
                   /\ UNCHANGED <<outcome, ret>>
    /\ UNCHANGED <<transcript, sc, cub, pce, pl, ip, sp, r1, top>>

\* lines 615-618: the callee returned, so is_ok() holds
sparse_poly_eval_return ==
    /\ pc = "sparse_poly_eval_return"
    /\ Return([ok |-> TRUE, value |-> TRUE])
    /\ UNCHANGED <<transcript, checks, frames>>

(***************************************************************************)
(* snark_verify                                                            *)
(***************************************************************************)
\* proof.matrix_evals
MatrixEvals == { <<1, 1, 2>> }

\* lines 59-69
snark_verify ==
    /\ pc = "snark_verify"
    /\ \E matrix_evals \in MatrixEvals :
        /\ r1' = r1_frame(top.r1cs, top.inputs, matrix_evals)
        /\ top' = [top EXCEPT !.matrix_evals = matrix_evals]
    /\ transcript' = new_transcript("Spartan SNARK proof")
    /\ pc' = "r1cs_satisfied_verify"
    /\ stack' = <<"snark_sparse">> \o stack
    /\ UNCHANGED <<checks, outcome, ret, sc, cub, pce, pl, hl, ip, sp>>

\* The sparse evaluation check called on the point (ry, rx).
snark_sparse_swapped_point ==
    /\ pc = "snark_sparse"
    /\ IF ~ret.result
       THEN /\ Panic
            /\ UNCHANGED <<transcript, sp>>
       ELSE LET ev == top.matrix_evals
                t3 == append_all(transcript, << <<"Ar_claim", ev[1]>>, <<"Br_claim", ev[2]>>,
                                                <<"Cr_claim", ev[3]>> >>)
            IN  /\ transcript' = t3
                /\ sp' = sp_frame(top.encode_commit.n, top.encode_commit.m,
                                  <<ret.ry, ret.rx>>, ev)
                /\ pc' = "sparse_poly_eval_verify"
                /\ stack' = <<"snark_return">> \o stack
                /\ UNCHANGED <<outcome, ret>>
    /\ UNCHANGED <<checks, sc, cub, pce, pl, hl, ip, r1, top>>

\* lines 61-85; r1cs_satisfied_verify returns only results that are true
snark_sparse ==
    /\ pc = "snark_sparse"
    /\ IF ~ret.result
       THEN /\ Panic
            /\ UNCHANGED <<transcript, sp>>
       ELSE LET ev == top.matrix_evals
                t3 == append_all(transcript, << <<"Ar_claim", ev[1]>>, <<"Br_claim", ev[2]>>,
                                                <<"Cr_claim", ev[3]>> >>)
            IN  /\ transcript' = t3
                /\ sp' = sp_frame(top.encode_commit.n, top.encode_commit.m,
                                  <<ret.rx, ret.ry>>, ev)
                /\ pc' = "sparse_poly_eval_verify"
                /\ stack' = <<"snark_return">> \o stack
                /\ UNCHANGED <<outcome, ret>>
    /\ UNCHANGED <<checks, sc, cub, pce, pl, hl, ip, r1, top>>

\* lines 85-87
snark_return ==
    /\ pc = "snark_return"
    /\ Return([ok |-> TRUE, value |-> "unit"])
    /\ UNCHANGED <<transcript, checks, frames>>

(***************************************************************************)
(* The verifier: a call of nizk_verify or snark_verify                     *)
(***************************************************************************)
Instances == { R1CSInstance(2, 2, 1), R1CSInstance(1, 1, 1) }
PublicInputs == { <<1>>, <<2>> }
EncodeCommits == { [n |-> 2, m |-> 4], [n |-> 2, m |-> 2], [n |-> 1, m |-> 4] }

Init ==
    /\ pc \in {"nizk_verify", "snark_verify"}
    /\ stack = <<>>
    /\ transcript = [d |-> 0, log |-> <<>>]
    /\ checks = <<>>
    /\ outcome = "running"
    /\ ret = Null
    /\ \E r1cs \in Instances, inputs \in PublicInputs, encode_commit \in EncodeCommits :
         top = [entry |-> pc, r1cs |-> r1cs, inputs |-> inputs,
                encode_commit |-> IF pc = "snark_verify" THEN encode_commit ELSE Null,
                proof_r |-> Null, matrix_evals |-> Null]
    /\ sc = Null /\ cub = Null /\ pce = Null /\ pl = Null /\ hl = Null
    /\ ip = Null /\ sp = Null /\ r1 = Null

Next ==
    \/ nizk_verify
    \/ nizk_return
    \/ snark_verify
    \/ snark_sparse
    \/ snark_return
    \/ r1cs_satisfied_verify
    \/ r1cs_knowledge
    \/ r1cs_product
    \/ r1cs_eq_one
    \/ r1cs_open_witness
    \/ r1cs_phase_two
    \/ sum_check_verify_round
    \/ sum_check_eval_verify
    \/ sum_check_verify_assert
    \/ sum_check_verify_return
    \/ inner_product_verify
    \/ sparse_poly_eval_verify
    \/ sparse_poly_eval_hash
    \/ sparse_poly_eval_return
    \/ product_layer_verify
    \/ product_layer_memory
    \/ product_layer_return
    \/ product_circuit_eval_verify_begin
    \/ product_circuit_eval_verify_layer
    \/ sum_check_cubic_verify_begin
    \/ sum_check_cubic_verify_round
    \/ sum_check_cubic_verify_return
    \/ product_circuit_eval_verify_check
    \/ product_circuit_eval_verify_reduce
    \/ product_circuit_eval_verify_return
    \/ hash_layer_verify
    \/ hash_layer_ops
    \/ hash_layer_mem
    \/ hash_layer_row
    \/ hash_layer_col

Spec == Init /\ [][Next]_vars

(***************************************************************************)
(* product_layer_verify on its own                                         *)
(***************************************************************************)
InitPL ==
    /\ pc = "product_layer_verify"
    /\ stack = <<>>
    /\ transcript = [d |-> 0, log |-> <<>>]
    /\ checks = <<>>
    /\ outcome = "running"
    /\ ret = Null
    /\ \E ln \in 0 .. MaxLayers, lm \in 0 .. MaxLayers, evals \in {<<1, 1, 2>>, <<1, 1>>} :
         pl = pl_frame(Pow2(ln), Pow2(lm), evals)
    /\ sc = Null /\ cub = Null /\ pce = Null /\ hl = Null
    /\ ip = Null /\ sp = Null /\ r1 = Null /\ top = Null

NextPL ==
    \/ product_layer_verify
    \/ product_layer_memory
    \/ product_layer_return
    \/ product_circuit_eval_verify_begin
    \/ product_circuit_eval_verify_layer
    \/ sum_check_cubic_verify_begin
    \/ sum_check_cubic_verify_round
    \/ sum_check_cubic_verify_return
    \/ product_circuit_eval_verify_check
    \/ product_circuit_eval_verify_reduce
    \/ product_circuit_eval_verify_return

SpecPL == InitPL /\ [][NextPL]_vars

(***************************************************************************)
(* hash_layer_verify on its own                                            *)
(***************************************************************************)
\* The claims of one memory handed over by the product-circuit argument: the init
\* claim is the init hash or not, the write claims are the read claims plus one or not.
MemoryClaims(rands_mem, r, gamma) ==
    { [init |-> FAdd(hash_init(rands_mem, r, gamma), di), read |-> read,
       write |-> [i \in 1 .. 3 |-> FAdd(read[i], IF i = 3 THEN dw ELSE 1)], audit |-> 1] :
        di \in {0, 1}, read \in {<<1, 1, 1>>, <<1, 2, 0>>}, dw \in {1, 2} }

InitHash ==
    /\ pc = "hash_layer_verify"
    /\ stack = <<>>
    /\ transcript = [d |-> 0, log |-> <<>>]
    /\ checks = <<>>
    /\ outcome = "running"
    /\ ret = Null
    /\ \E gamma \in {<<1, 0>>, <<2, 1>>}, mem_rands \in {<<1>>, <<0>>},
          claims_dotp \in {Ones(9), Ones(8)} :
         \E claims_row \in MemoryClaims(mem_rands, <<1>>, gamma),
            claims_col \in {c \in MemoryClaims(mem_rands, <<0>>, gamma) :
                               c.read = <<1, 1, 1>> /\ c.write = <<2 % Q, 2 % Q, 2 % Q>>} :
            hl = hl_frame(<< <<1>>, <<0>> >>, << <<1>>, mem_rands >>, gamma,
                          claims_row, claims_col, claims_dotp, Ones(4))
    /\ sc = Null /\ cub = Null /\ pce = Null /\ pl = Null
    /\ ip = Null /\ sp = Null /\ r1 = Null /\ top = Null

NextHash ==
    \/ hash_layer_verify
    \/ inner_product_verify
    \/ hash_layer_ops
    \/ hash_layer_mem
    \/ hash_layer_row
    \/ hash_layer_col

SpecHash == InitHash /\ [][NextHash]_vars

(***************************************************************************)
(* The Marlin end-to-end test (marlin/test.rs)                             *)
(***************************************************************************)
\* The circuit with the input variable assigned a + b.
generate_constraints_sum(circuit) ==
    LET extra == IF circuit.num_variables > 3 THEN circuit.num_variables - 3 ELSE 0
    IN  [input_assignment |-> <<FAdd(circuit.a, circuit.b)>>,
         aux_assignment |-> <<circuit.a, circuit.b>> \o [i \in 1 .. extra |-> circuit.a],
         constraints |-> [i \in 1 .. circuit.num_constraints |->
                            [a |-> <<"aux", 1>>, b |-> <<"aux", 2>>, c |-> <<"input", 1>>]]]

\* Circuit::generate_constraints: a and b are allocated as auxiliary variables 1 and 2,
\* c = a * b as input variable 1, one more auxiliary variable with the value a for
\* every i in 3 .. num_variables - 1, then num_constraints times a * b = c.
generate_constraints(circuit) ==
    LET extra == IF circuit.num_variables > 3 THEN circuit.num_variables - 3 ELSE 0
    IN  [input_assignment |-> <<FMul(circuit.a, circuit.b)>>,
         aux_assignment |-> <<circuit.a, circuit.b>> \o [i \in 1 .. extra |-> circuit.a],
         constraints |-> [i \in 1 .. circuit.num_constraints |->
                            [a |-> <<"aux", 1>>, b |-> <<"aux", 2>>, c |-> <<"input", 1>>]]]

\* (A z) o (B z) = (C z) for the assignment of a constraint system.
is_satisfied(cs) ==
    LET value(v) == IF v[1] = "input" THEN cs.input_assignment[v[2]]
                    ELSE cs.aux_assignment[v[2]]
    IN  \A i \in DOMAIN cs.constraints :
            FMul(value(cs.constraints[i].a), value(cs.constraints[i].b))
                = value(cs.constraints[i].c)

universal_setup(max_degree) == [max_degree |-> max_degree]

\* The keys of a circuit: the reference string and the constraints of the circuit.
index(srs, circuit) ==
    LET cs == generate_constraints(circuit)
        key == [srs |-> srs, constraints |-> cs.constraints,
                num_aux |-> Len(cs.aux_assignment)]
    IN  [ipk |-> key, ivk |-> key]

\* A proof made by the prover: the key it was made for, the public input of the
\* assignment and whether the assignment satisfies the constraints of the key.
prove(ipk, circuit) ==
    LET cs == generate_constraints(circuit)
    IN  [key |-> ipk, public_input |-> cs.input_assignment,
         satisfied |-> /\ cs.constraints = ipk.constraints
                       /\ Len(cs.aux_assignment) = ipk.num_aux
                       /\ is_satisfied(cs)]

\* True for the proof of a satisfying assignment made for this key, checked against
\* the public input of the assignment; false otherwise.
verify(ivk, proof, public_input) ==
    /\ proof.key = ivk
    /\ proof.satisfied
    /\ proof.public_input = public_input

\* lines 61-74: a and b are drawn, c = a * b, the circuit is built and the reference
\* string is made for the degree 2 ^ 32, the exclusive or of 2 and 32.
test_circuit ==
    /\ pc = "test_circuit"
    /\ top' = [top EXCEPT !.c = FMul(top.a, top.b),
                          !.circuit = [a |-> top.a, b |-> top.b,
                                       num_constraints |-> top.num_constraints,
                                       num_variables |-> top.num_variables],
                          !.srs = universal_setup(34)]
    /\ pc' = "test_circuit_index"
    /\ UNCHANGED <<stack, transcript, checks, outcome, ret, not_top>>

\* line 76
test_circuit_index ==
    /\ pc = "test_circuit_index"
    /\ LET keys == index(top.srs, top.circuit)
       IN  top' = [top EXCEPT !.ipk = keys.ipk, !.ivk = keys.ivk]
    /\ pc' = "test_circuit_prove"
    /\ UNCHANGED <<stack, transcript, checks, outcome, ret, not_top>>

\* line 78
test_circuit_prove ==
    /\ pc = "test_circuit_prove"
    /\ top' = [top EXCEPT !.proof = prove(top.ipk, top.circuit)]
    /\ pc' = "test_circuit_verify"
    /\ UNCHANGED <<stack, transcript, checks, outcome, ret, not_top>>

\* line 80: assert!(verify(&ivk, &proof, &[c]).unwrap())
test_circuit_verify ==
    /\ pc = "test_circuit_verify"
    /\ LET result == verify(top.ivk, top.proof, <<top.c>>)
       IN  /\ checks' = Checked("verify", result, [public_input |-> <<top.c>>])
           /\ IF result
              THEN /\ pc' = "test_circuit_verify_other"
                   /\ UNCHANGED <<stack, outcome, ret>>
              ELSE Panic
    /\ UNCHANGED <<transcript, frames>>

\* line 82: assert!(!verify(&ivk, &proof, &[a]).unwrap())
test_circuit_verify_other ==
    /\ pc = "test_circuit_verify_other"
    /\ LET result == verify(top.ivk, top.proof, <<top.a>>)
       IN  /\ checks' = Checked("verify_other", ~result, [public_input |-> <<top.a>>])
           /\ IF ~result
              THEN /\ pc' = "test_circuit_reprove"
                   /\ UNCHANGED <<stack, outcome, ret>>
              ELSE Panic
    /\ UNCHANGED <<transcript, frames>>

\* The bytes of a key: the degree of the reference string, the number of auxiliary
\* variables, the number of constraints and, for every constraint, the kind (0 for an
\* input, 1 for an auxiliary variable) and the index of its three variables.
write_key(key) ==
    LET n == Len(key.constraints)
        field(i) == LET c == key.constraints[(i + 5) \div 6]
                        v == IF (i - 1) % 6 < 2 THEN c.a
                             ELSE IF (i - 1) % 6 < 4 THEN c.b ELSE c.c
                    IN  IF i % 2 = 1 THEN (IF v[1] = "input" THEN 0 ELSE 1) ELSE v[2]
    IN  <<key.srs.max_degree, key.num_aux, n>> \o [i \in 1 .. 6 * n |-> field(i)]

read_key(bytes) ==
    LET var(k) == <<IF bytes[k] = 0 THEN "input" ELSE "aux", bytes[k + 1]>>
    IN  [srs |-> [max_degree |-> bytes[1]], num_aux |-> bytes[2],
         constraints |-> [i \in 1 .. bytes[3] |->
                            [a |-> var(6 * i - 2), b |-> var(6 * i), c |-> var(6 * i + 2)]]]

\* The bytes of a proof: whether it is the proof of a satisfying assignment, the
\* public input with its length, and the key it was made for.
write_proof(proof) ==
    <<IF proof.satisfied THEN 1 ELSE 0, Len(proof.public_input)>>
        \o proof.public_input \o write_key(proof.key)

read_proof(bytes) ==
    [key |-> read_key(SubSeq(bytes, 3 + bytes[2], Len(bytes))),
     public_input |-> SubSeq(bytes, 3, 2 + bytes[2]),
     satisfied |-> bytes[1] = 1]

\* The last verification called with the public input a.
test_circuit_reverify_other_input ==
    /\ pc = "test_circuit_reverify"
    /\ LET new_ivk == read_key(write_key(top.ivk))
           new_proof == read_proof(write_proof(top.next_proof))
           result == verify(new_ivk, new_proof, <<top.a>>)
       IN  /\ top' = [top EXCEPT !.new_ivk = new_ivk, !.new_proof = new_proof]
           /\ checks' = Checked("verify_new", result, [public_input |-> <<top.a>>])
           /\ IF result
              THEN /\ pc' = "done"
                   /\ outcome' = "returned"
                   /\ UNCHANGED <<stack, ret>>
              ELSE Panic
    /\ UNCHANGED <<transcript, not_top>>

\* lines 84-88: the prover key is written and read back, and a proof is made with it
test_circuit_reprove ==
    /\ pc = "test_circuit_reprove"
    /\ LET new_ipk == read_key(write_key(top.ipk))
       IN  top' = [top EXCEPT !.new_ipk = new_ipk,
                              !.next_proof = prove(new_ipk, top.circuit)]
    /\ pc' = "test_circuit_reverify"
    /\ UNCHANGED <<stack, transcript, checks, outcome, ret, not_top>>

\* lines 90-97: the verifier key and the proof are written and read back, and
\* assert!(verify(&new_ivk, &new_proof, &[c]).unwrap())
test_circuit_reverify ==
    /\ pc = "test_circuit_reverify"
    /\ LET new_ivk == read_key(write_key(top.ivk))
           new_proof == read_proof(write_proof(top.next_proof))
           result == verify(new_ivk, new_proof, <<top.c>>)
       IN  /\ top' = [top EXCEPT !.new_ivk = new_ivk, !.new_proof = new_proof]
           /\ checks' = Checked("verify_new", result, [public_input |-> <<top.c>>])
           /\ IF result
              THEN /\ pc' = "done"
                   /\ outcome' = "returned"
                   /\ UNCHANGED <<stack, ret>>
              ELSE Panic
    /\ UNCHANGED <<transcript, not_top>>

\* The numbers of constraints and of variables the test is run with.
MaxShape == 4

InitMarlin ==
    /\ pc = "test_circuit"
    /\ stack = <<>>
    /\ transcript = [log |-> <<>>, d |-> 0]
    /\ checks = <<>>
    /\ outcome = "running"
    /\ ret = Null
    /\ \E num_constraints \in 1 .. MaxShape, num_variables \in 1 .. (MaxShape + 2),
          a \in Fr, b \in Fr :
         top = [entry |-> "test_circuit", num_constraints |-> num_constraints,
                num_variables |-> num_variables, a |-> a, b |-> b, c |-> 0,
                circuit |-> Null, srs |-> Null, ipk |-> Null, ivk |-> Null, proof |-> Null,
                new_ipk |-> Null, next_proof |-> Null, new_ivk |-> Null,
                new_proof |-> Null]
    /\ sc = Null /\ cub = Null /\ pce = Null /\ pl = Null /\ hl = Null
    /\ ip = Null /\ sp = Null /\ r1 = Null

NextMarlin ==
    \/ test_circuit
    \/ test_circuit_index
    \/ test_circuit_prove
    \/ test_circuit_verify
    \/ test_circuit_verify_other
    \/ test_circuit_reprove
    \/ test_circuit_reverify

SpecMarlin == InitMarlin /\ [][NextMarlin]_vars

(***************************************************************************)
(* BigInteger (math/src/biginteger/mod.rs)                                 *)
(***************************************************************************)
\* A limb has LimbBytes bytes of one bit each (8 bytes of 8 bits in the code); a u128
\* has twice as many.
LimbBytes == 3
MaxLimbs == 3

Limb == 2 ^ LimbBytes

\* The integer of a little-endian sequence of bytes.
RECURSIVE from_le_bytes(_)
from_le_bytes(bytes) == IF bytes = <<>> THEN 0 ELSE bytes[1] + 2 * from_le_bytes(Tail(bytes))

\* lines 116-134; a BigInteger is the sequence of its limbs, least significant first
from_u128(num_limbs, val) ==
    LET default == [i \in 1 .. num_limbs |-> 0]
        u_bytes == [i \in 1 .. 2 * LimbBytes |-> (val \div 2 ^ (i - 1)) % 2]
        f == from_le_bytes(SubSeq(u_bytes, 1, LimbBytes))
        s == from_le_bytes(SubSeq(u_bytes, LimbBytes + 1, 2 * LimbBytes))
    IN  IF num_limbs < 2 THEN default
        ELSE [[default EXCEPT ![1] = f] EXCEPT ![2] = s]

\* A call of from_u128 on the integer type of top.num_limbs limbs.
biginteger_from_u128 ==
    /\ pc = "from_u128"
    /\ ret' = from_u128(top.num_limbs, top.val)
    /\ pc' = "done"
    /\ outcome' = "returned"
    /\ UNCHANGED <<stack, transcript, checks, frames>>

InitBig ==
    /\ pc = "from_u128"
    /\ stack = <<>>
    /\ transcript = [log |-> <<>>, d |-> 0]
    /\ checks = <<>>
    /\ outcome = "running"
    /\ ret = Null
    /\ \E num_limbs \in 1 .. MaxLimbs, val \in 0 .. (Limb * Limb - 1) :
         top = [entry |-> "from_u128", num_limbs |-> num_limbs, val |-> val]
    /\ sc = Null /\ cub = Null /\ pce = Null /\ pl = Null /\ hl = Null
    /\ ip = Null /\ sp = Null /\ r1 = Null

NextBig == biginteger_from_u128

SpecBig == InitBig /\ [][NextBig]_vars

(***************************************************************************)
(* The limb arithmetic of BigInteger (math/src/biginteger/mod.rs, mod      *)
(* arithmetic)                                                             *)
(***************************************************************************)
\* A u64 is a number below Limb and a u128 a number below Wide. wrapped: the u128
\* arithmetic left the range of the type, which panics in a build with overflow checks
\* and wraps in the others.
Wide == Limb * Limb

\* sbb computed without the 1u128 << 64 that is added before the subtraction.
sbb_without_bias(a, b, borrow) ==
    LET exact == a - b - borrow
        tmp == exact % Wide
    IN  [result |-> tmp % Limb,
         borrow |-> IF tmp \div Limb = 0 THEN 1 ELSE 0,
         wrapped |-> exact < 0]

\* lines 149-158
sbb(a, b, borrow) ==
    LET exact == Limb + a - b - borrow
        tmp == exact % Wide
    IN  [result |-> tmp % Limb,
         borrow |-> IF tmp \div Limb = 0 THEN 1 ELSE 0,
         wrapped |-> exact < 0]

\* mac_with_carry computed on u64 instead of u128.
mac_with_carry_on_u64(a, b, c, carry) ==
    LET exact == a + b * c + carry
        tmp == exact % Limb
    IN  [result |-> tmp % Limb,
         carry |-> (tmp \div Limb) % Limb,
         wrapped |-> exact >= Limb]

\* lines 160-169
mac_with_carry(a, b, c, carry) ==
    LET exact == a + b * c + carry
        tmp == exact % Wide
    IN  [result |-> tmp % Limb,
         carry |-> (tmp \div Limb) % Limb,
         wrapped |-> exact >= Wide]

\* The end of one call in a chain over top.limbs limbs: a wrapped intermediate ends the
\* chain with a panic where the build checks overflow.
arithmetic_step(call, out, wrapped) ==
    /\ top' = [top EXCEPT !.i = @ + 1, !.flag = out, !.last = call]
    /\ IF wrapped /\ top.overflow_checks
       THEN Panic
       ELSE IF top.i + 1 = top.limbs THEN Return(call.result)
            ELSE /\ pc' = pc
                 /\ UNCHANGED <<stack, outcome, ret>>
    /\ UNCHANGED <<transcript, checks, not_top>>

\* One call of sbb with the borrow the call before it left.
arithmetic_sbb ==
    /\ pc = "sbb"
    /\ \E a \in 0 .. Limb - 1, b \in 0 .. Limb - 1 :
         LET out == sbb(a, b, top.flag)
         IN  arithmetic_step([a |-> a, b |-> b, c |-> 0, in |-> top.flag, out |-> out.borrow,
                              result |-> out.result, wrapped |-> out.wrapped],
                             out.borrow, out.wrapped)

\* One call of mac_with_carry with the carry the call before it left.
arithmetic_mac_with_carry ==
    /\ pc = "mac_with_carry"
    /\ \E a \in 0 .. Limb - 1, b \in 0 .. Limb - 1, c \in 0 .. Limb - 1 :
         LET out == mac_with_carry(a, b, c, top.flag)
         IN  arithmetic_step([a |-> a, b |-> b, c |-> c, in |-> top.flag, out |-> out.carry,
                              result |-> out.result, wrapped |-> out.wrapped],
                             out.carry, out.wrapped)

\* A chain of calls of sbb over the limbs of an integer, or one call of mac_with_carry;
\* either starts with any u64 in the borrow or the carry.
InitArith ==
    /\ pc \in {"sbb", "mac_with_carry"}
    /\ stack = <<>>
    /\ transcript = [log |-> <<>>, d |-> 0]
    /\ checks = <<>>
    /\ outcome = "running"
    /\ ret = Null
    /\ \E limbs \in 1 .. MaxLimbs, flag \in 0 .. Limb - 1, overflow_checks \in BOOLEAN :
         /\ pc = "mac_with_carry" => limbs = 1
         /\ top = [entry |-> pc, limbs |-> limbs, i |-> 0, flag |-> flag,
                   overflow_checks |-> overflow_checks, last |-> Null]
    /\ sc = Null /\ cub = Null /\ pce = Null /\ pl = Null /\ hl = Null
    /\ ip = Null /\ sp = Null /\ r1 = Null

NextArith == arithmetic_sbb \/ arithmetic_mac_with_carry

SpecArith == InitArith /\ [][NextArith]_vars

(***************************************************************************)
(* The command line programs setup and zkp-prove (cli/src/setup.rs and     *)
(* cli/src/zkp_prove.rs)                                                   *)
(***************************************************************************)
\* The longest argument vector, the program's name included.
MaxArgs == 5

SETUP_DIR == "./setup_files"
PROOFS_DIR == "./proof_files"

\* The words an argument is drawn from: the implemented ones and one that is not.
Schemes == {"groth16", "marlin", "spartan_snark", "spartan_nizk", "bulletproofs", "plonk"}
Curves == {"bn_256", "bls12_381", "bw6"}
Circuits == {"mini", "hash", "sha"}

\* env::args(): the program's name, then the words of the command line. args[k] of the
\* code is Args[k + 1] here.
Args(program) ==
    { SubSeq(<<program, s, c, k>> \o [i \in 1 .. MaxArgs |-> "7"], 1, n) :
        s \in Schemes, c \in Curves, k \in Circuits, n \in 1 .. MaxArgs }

\* The outcome of one run of a program: how it ended, the message of its Err, whether
\* the usage was printed, the file system it leaves, the paths whose bytes it handed
\* to postcard::from_bytes.
Ran(result, err, fs, read) == [result |-> result, err |-> err, usage |-> FALSE, fs |-> fs, read |-> read]

\* A path is the directory and the file name pushed onto it; a file name made by
\* format! is the sequence of its pieces. The calls of the file system succeed.
\* setup.rs lines 29-93. ok: the parameter generator of the scheme returned Ok.
setup_handle_scheme(curve_name, scheme, circuit, fs, ok) ==
    LET made == [fs EXCEPT !.dirs = @ \cup {SETUP_DIR}]
        write(names) == [made EXCEPT !.files = @ \cup { <<SETUP_DIR, n>> : n \in names }]
        pk_name == <<scheme, "-", curve_name, "-", circuit, ".pk">>
        vk_name == <<scheme, "-", curve_name, "-", circuit, ".vk">>
    IN  CASE scheme = "groth16" ->
               IF ok THEN Ran("Ok", <<>>, write({pk_name, vk_name}), {})
               ELSE Ran("panic", <<>>, made, {})
          [] scheme = "marlin" ->
               IF ok THEN Ran("Ok", <<>>, write({<<scheme, "-", curve_name, ".universal_setup">>}), {})
               ELSE Ran("panic", <<>>, made, {})
          [] scheme \in {"spartan_snark", "spartan_nizk"} ->
               IF ok
               THEN Ran("Ok", <<>>, write({<<scheme, "-", curve_name, "-", circuit, ".universal_setup">>}), {})
               ELSE Ran("panic", <<>>, made, {})
          [] OTHER -> Ran("Err", <<"SCHEME: ", scheme, " not implement.">>, made, {})

\* setup.rs lines 13-27
setup_handle_circuit(curve_name, scheme, circuit, fs, ok) ==
    IF circuit \in {"mini", "hash"}
    THEN setup_handle_scheme(curve_name, scheme, circuit, fs, ok)
    ELSE Ran("Err", <<"CIRCUIT: ", circuit, " not implement.">>, fs, {})

\* setup.rs lines 95-142
setup_main(args, fs, ok) ==
    IF Len(args) < 2
    THEN [Ran("Err", <<"Params invalid!">>, fs, {}) EXCEPT !.usage = TRUE]
    ELSE LET circuit == IF Len(args) > 3 THEN args[4] ELSE "mini"
         IN  IF Len(args) < 3
             THEN Ran("panic", <<>>, fs, {})
             ELSE LET curve == args[3]
                      scheme == args[2]
                  IN  IF curve \in {"bn_256", "bls12_381"}
                      THEN setup_handle_circuit(curve, scheme, circuit, fs, ok)
                      ELSE Ran("Err", <<"Curve: ", curve, " not implement.">>, fs, {})

\* zkp_prove_handle_scheme looking for the parameters of marlin under a name that
\* carries the circuit, as the names of the other schemes do.
zkp_prove_handle_scheme_marlin_by_circuit(curve_name, scheme, circuit, fs, ok) ==
    LET pk_path == <<SETUP_DIR, <<scheme, "-", curve_name, "-", circuit, ".pk">>>>
        proved == [dirs |-> fs.dirs \cup {PROOFS_DIR},
                   files |-> fs.files \cup
                       {<<PROOFS_DIR, <<scheme, "-", curve_name, "-", circuit, ".proof.json">>>>}]
        from_file(path) ==
            IF path \in fs.files /\ ok THEN Ran("Ok", <<>>, proved, {path})
            ELSE Ran("panic", <<>>, fs, {path})
    IN  CASE scheme = "groth16" -> from_file(pk_path)
          [] scheme = "bulletproofs" ->
               IF ok THEN Ran("Ok", <<>>, proved, {}) ELSE Ran("panic", <<>>, fs, {})
          [] scheme \in {"marlin", "spartan_snark", "spartan_nizk"} ->
               from_file(<<SETUP_DIR, <<scheme, "-", curve_name, "-", circuit, ".universal_setup">>>>)
          [] OTHER -> Ran("Err", <<"SCHEME: ", scheme, " not implement.">>, fs, {})

\* zkp_prove.rs lines 33-123. A file that is not there is read as no bytes, and no
\* bytes do not deserialize. ok: the prover of the scheme returned Ok.
zkp_prove_handle_scheme(curve_name, scheme, circuit, fs, ok) ==
    LET pk_path == <<SETUP_DIR, <<scheme, "-", curve_name, "-", circuit, ".pk">>>>
        proved == [dirs |-> fs.dirs \cup {PROOFS_DIR},
                   files |-> fs.files \cup
                       {<<PROOFS_DIR, <<scheme, "-", curve_name, "-", circuit, ".proof.json">>>>}]
        from_file(path) ==
            IF path \in fs.files /\ ok THEN Ran("Ok", <<>>, proved, {path})
            ELSE Ran("panic", <<>>, fs, {path})
    IN  CASE scheme = "groth16" -> from_file(pk_path)
          [] scheme = "bulletproofs" ->
               IF ok THEN Ran("Ok", <<>>, proved, {}) ELSE Ran("panic", <<>>, fs, {})
          [] scheme = "marlin" ->
               from_file(<<SETUP_DIR, <<scheme, "-", curve_name, ".universal_setup">>>>)
          [] scheme \in {"spartan_snark", "spartan_nizk"} ->
               from_file(<<SETUP_DIR, <<scheme, "-", curve_name, "-", circuit, ".universal_setup">>>>)
          [] OTHER -> Ran("Err", <<"SCHEME: ", scheme, " not implement.">>, fs, {})

\* zkp_prove.rs lines 15-31. on: power_on accepted the rest of the command line.
zkp_prove_handle_circuit(curve_name, scheme, circuit, fs, on, ok) ==
    IF circuit \in {"mini", "hash"}
    THEN IF on THEN zkp_prove_handle_scheme(curve_name, scheme, circuit, fs, ok)
         ELSE Ran("panic", <<>>, fs, {})
    ELSE Ran("Err", <<"CIRCUIT: ", circuit, " not implement.">>, fs, {})

\* zkp_prove.rs lines 131-176
zkp_prove_main(args, fs, on, ok) ==
    IF Len(args) < 2
    THEN [Ran("Err", <<"Params invalid!">>, fs, {}) EXCEPT !.usage = TRUE]
    ELSE IF Len(args) < 4
         THEN Ran("panic", <<>>, fs, {})
         ELSE LET curve == args[3]
                  scheme == args[2]
                  circuit == args[4]
              IN  IF curve \in {"bn_256", "bls12_381"}
                  THEN zkp_prove_handle_circuit(curve, scheme, circuit, fs, on, ok)
                  ELSE Ran("Err", <<"Curve: ", curve, " not implement.">>, fs, {})

\* One run of setup from the shell: top.fs is the file system before it, top.setup
\* the run.
setup ==
    /\ pc = "setup"
    /\ \E args \in Args("setup"), ok \in BOOLEAN :
         LET run == setup_main(args, top.fs, ok)
         IN  top' = [top EXCEPT !.setup = run @@ [args |-> args, before |-> top.fs],
                                !.fs = run.fs]
    /\ pc' = "zkp_prove"
    /\ UNCHANGED <<stack, transcript, checks, outcome, ret, not_top>>

\* One run of zkp-prove after it.
zkp_prove ==
    /\ pc = "zkp_prove"
    /\ \E args \in Args("zkp-prove"), on \in BOOLEAN, ok \in BOOLEAN :
         LET run == zkp_prove_main(args, top.fs, on, ok)
         IN  /\ top' = [top EXCEPT !.prove = run @@ [args |-> args, before |-> top.fs],
                                   !.fs = run.fs]
             /\ outcome' = IF run.result = "panic" THEN "panic" ELSE "returned"
             /\ ret' = run.result
    /\ pc' = "done"
    /\ UNCHANGED <<stack, transcript, checks, not_top>>

InitCli ==
    /\ pc = "setup"
    /\ stack = <<>>
    /\ transcript = [log |-> <<>>, d |-> 0]
    /\ checks = <<>>
    /\ outcome = "running"
    /\ ret = Null
    /\ \E dirs \in SUBSET {SETUP_DIR, PROOFS_DIR} :
         top = [entry |-> "setup", fs |-> [dirs |-> dirs, files |-> {}],
                setup |-> Null, prove |-> Null]
    /\ sc = Null /\ cub = Null /\ pce = Null /\ pl = Null /\ hl = Null
    /\ ip = Null /\ sp = Null /\ r1 = Null

NextCli == setup \/ zkp_prove

SpecCli == InitCli /\ [][NextCli]_vars

(***************************************************************************)
(* Properties of sum_check_verify (specification SpecSC)                   *)
(***************************************************************************)
TLog == transcript.log
Appended(label) == [op |-> "append", label |-> label]
Derived(label) == [op |-> "challenge", label |-> label]
\* Number of occurrences of the operation e among the first k operations of the log.
Count(e, k) == Cardinality({j \in 1 .. k : j <= Len(TLog) /\ TLog[j] = e})

\* C9, as stated: in every round the polynomial commitment AND the evaluation
\* commitment are absorbed before the round challenge r_i is derived, the consistency
\* check runs after r_i is derived, and r_i is pushed only after the check passed.
C9_AsStated ==
    /\ \A k \in DOMAIN TLog :
         TLog[k] = Derived("challenge_nextround") =>
            /\ Count(Appended("comm_poly"), k) = Count(Derived("challenge_nextround"), k)
            /\ Count(Appended("comm_eval"), k) = Count(Derived("challenge_nextround"), k)
    /\ Len(checks) <= Count(Derived("challenge_nextround"), Len(TLog))
    /\ Len(sc.rx) <= Len(checks)
    /\ \A i \in DOMAIN sc.rx : checks[i].ok /\ sc.rx[i] = checks[i].info.r

\* C9, amended: in every round the polynomial commitment is absorbed before the round
\* challenge r_i is derived; the round's claim and evaluation commitments are absorbed
\* after r_i is derived and before the consistency check draws its first scalar; the
\* check runs after r_i is derived, and r_i is pushed only after the check passed.
C9_RoundOrder ==
    /\ \A k \in DOMAIN TLog :
         /\ TLog[k] = Derived("challenge_nextround") =>
              /\ Count(Appended("comm_poly"), k) = Count(Derived("challenge_nextround"), k)
              /\ Count(Appended("comm_eval"), k)
                   = Count(Derived("challenge_nextround"), k) - 1
              /\ Count(Appended("comm_claim_per_round"), k)
                   = Count(Derived("challenge_nextround"), k) - 1
         /\ TLog[k] = Derived("combine_two_claims_to_one") =>
              /\ Count(Appended("comm_eval"), k) = Count(Derived("challenge_nextround"), k)
              /\ Count(Appended("comm_claim_per_round"), k)
                   = Count(Derived("challenge_nextround"), k)
    /\ Len(checks) <= Count(Derived("challenge_nextround"), Len(TLog))
    /\ Len(sc.rx) <= Len(checks)
    /\ \A i \in DOMAIN sc.rx : checks[i].ok /\ sc.rx[i] = checks[i].info.r

\* Two rounds were run: both challenges were derived, checked and pushed.
C9_Witness ==
    /\ Len(sc.rx) = 2
    /\ Count(Derived("challenge_nextround"), Len(TLog)) = 2
    /\ Count(Appended("comm_eval"), Len(TLog)) = 2

\* C10: sum_check_verify with num_rounds = r returns exactly r challenges in round
\* order with the evaluation commitment of the last round (the input claim when
\* r = 0), and the claim checked in round i is the input claim for i = 0 and round
\* i - 1's evaluation commitment for i > 0.
C10_Result ==
    /\ \A i \in DOMAIN checks :
         checks[i].info.claim = IF i = 1 THEN sc.arg_claim ELSE checks[i - 1].info.eval
    /\ (pc = "done" /\ outcome = "returned") =>
         /\ Len(ret.rx) = sc.num_rounds
         /\ Len(checks) = sc.num_rounds
         /\ \A i \in DOMAIN ret.rx : ret.rx[i] = checks[i].info.r
         /\ ret.commit_claim = IF sc.num_rounds = 0 THEN sc.arg_claim
                               ELSE checks[sc.num_rounds].info.eval

\* A two-round call returned, and its second round checked a claim other than the input.
C10_Witness ==
    /\ pc = "done" /\ outcome = "returned"
    /\ sc.num_rounds = 2
    /\ Len(ret.rx) = 2
    /\ checks[2].info.claim # sc.arg_claim


(***************************************************************************)
(* Properties of product_circuit_eval_verify (specification SpecPCE)       *)
(***************************************************************************)
\* C5: in every round of sum_check_cubic_verify the round polynomial p is accepted
\* only if p(0) + p(1) equals the claim carried into that round; a proof whose round
\* polynomial sums to a different value is rejected (the argument does not return).
C5_AsStated ==
    (pc = "done" /\ outcome = "returned" /\ cub # Null) =>
        \A j \in DOMAIN cub.rounds :
            FAdd(evaluate(cub.rounds[j].poly, 0), evaluate(cub.rounds[j].poly, 1))
                = cub.rounds[j].claim

LayerChecks == {k \in DOMAIN checks : checks[k].name = "layer_claim"}

C6_Eq(r, rands) ==
    SeqProd([k \in 1 .. Len(r) |->
                (r[k] * rands[k] + (Q + 1 - r[k]) * (Q + 1 - rands[k])) % Q])

C6_Expected(e) ==
    LET nl == Len(e.proof.left)
        prods == SeqSum([k \in 1 .. nl |->
                    (e.coeffs[k] * e.proof.left[k] * e.proof.right[k] * C6_Eq(e.r, e.rands)) % Q])
        dotps == SeqSum([k \in 1 .. Len(e.proof.dotp.row) |->
                    (e.coeffs[nl + k] * e.proof.dotp.row[k] * e.proof.dotp.col[k]
                        * e.proof.dotp.val[k]) % Q])
    IN  (prods + dotps) % Q

\* C6: at every layer the verifier continues only if the value returned by the layer's
\* sumcheck equals the recomputed expected value, sum_i coeff_i * left_i * right_i *
\* eq(r, accumulated challenges) plus, on the final layer, coeff * row * col * val for
\* each dot-product claim of the proof; a layer where the two differ rejects.
C6_LayerCheck ==
    /\ \A k \in LayerChecks :
         /\ checks[k].ok <=> (checks[k].info.final = C6_Expected(checks[k].info))
         /\ ~checks[k].ok => (k = Len(checks) /\ pc = "done" /\ outcome = "panic")
    /\ (pce # Null /\ outcome # "panic") =>
         LET passed == Cardinality({k \in LayerChecks : checks[k].ok})
         IN  /\ pc \in {"pce_loop", "sum_check_cubic_verify", "cubic_loop", "pce_layer_check"}
                  => pce.i = passed
             /\ pc = "pce_layer_reduce" => pce.i + 1 = passed
             /\ outcome = "returned" => passed = pce.layer_num

\* A second, final layer with two dot-product triples passed its check after a
\* one-round sumcheck.
C6_Witness ==
    /\ outcome = "returned"
    /\ \E k \in LayerChecks :
         /\ checks[k].ok /\ checks[k].info.layer = 1 /\ Len(checks[k].info.r) = 1
         /\ Len(checks[k].info.proof.dotp.row) = 2
         /\ checks[k].info.final # 0

(***************************************************************************)
(* Properties of nizk_verify and snark_verify (specification Spec)         *)
(***************************************************************************)
Has(name) == \E k \in DOMAIN checks : checks[k].name = name
Failed == \E k \in DOMAIN checks : ~checks[k].ok
Accepted == pc = "done" /\ outcome = "returned"

\* C1, as stated: neither entry point panics; every failure is a typed error return.
C1_AsStated == outcome # "panic"

\* The outcome of the accepted run of nizk_verify or snark_verify replayed with the
\* public inputs x: nothing before line 239 reads the inputs, so the replay reaches
\* phase two with the same frame, the same equality proof and the same transcript.
C2_Replay(x) ==
    LET p == phase_two(r1, x, r1.sc2_eq_proof, r1.tr2)
    IN  IF phase_two_end(p) = "panic" THEN "panic"
        ELSE IF p.result THEN "Ok(true)" ELSE "Ok(false)"

\* C2, as stated: a proof accepted for the inputs x makes the verifier return false
\* as an ordinary value, Ok(false), on any x' # x.
C2_AsStated ==
    Accepted => \A x \in PublicInputs \ {top.inputs} : C2_Replay(x) = "Ok(false)"

\* C3: a run is accepted only if every sub-check it executed returned true, and the
\* sub-checks of the accepted run are there: one consistency check per sumcheck
\* round, the knowledge proof, the product proof, both equality proofs and the witness
\* opening; for snark_verify also both memory identities, a claim check per layer of
\* the two batched product-circuit arguments, the three evaluation openings and the
\* hash comparisons.
C3_Accepted ==
    Accepted =>
        /\ \A k \in DOMAIN checks : checks[k].ok
        /\ Cardinality({k \in DOMAIN checks : checks[k].name = "sum_check_eval_verify"})
             = r1.num_rounds_x + r1.num_rounds_y
        /\ \A name \in {"knowledge_verify", "product_verify", "sc1_eq_verify",
                         "sc2_eq_verify", "witness_opening"} : Has(name)
        /\ top.entry = "snark_verify" =>
             /\ \A name \in {"row_identity", "col_identity", "derefs_opening",
                              "ops_opening", "mem_opening"} : Has(name)
             /\ Cardinality({k \in DOMAIN checks : checks[k].name = "layer_claim"})
                  = log2(top.encode_commit.n) + log2(top.encode_commit.m)
             /\ \A mem \in {"row", "col"} :
                  /\ \E k \in DOMAIN checks :
                       checks[k].name = "hash_init" /\ checks[k].info = <<mem, 0>>
                  /\ \E k \in DOMAIN checks :
                       checks[k].name = "hash_audit" /\ checks[k].info = <<mem, 0>>

\* snark_verify accepted a proof after sumcheck rounds, layer checks, openings and
\* hash comparisons.
C3_Witness ==
    /\ Accepted
    /\ top.entry = "snark_verify"
    /\ Has("sum_check_eval_verify") /\ Has("layer_claim") /\ Has("hash_write")
    /\ Has("mem_opening")

\* C4: once a sub-check has returned false, no step appends to or derives from the
\* transcript and no step runs another sub-check.
C4_FailFast ==
    [][Failed => (transcript' = transcript /\ checks' = checks)]_vars

\* A run stopped at a false sub-check that had transcript operations and true
\* sub-checks before it.
C4_Witness ==
    /\ pc = "done" /\ outcome = "panic"
    /\ Len(checks) > 1
    /\ ~checks[Len(checks)].ok
    /\ \A k \in 1 .. Len(checks) - 1 : checks[k].ok
    /\ Len(TLog) > 0

(***************************************************************************)
(* Properties of product_layer_verify (specification SpecPL)               *)
(***************************************************************************)
C7_Prod3(v) == (v[1] * v[2] * v[3]) % Q
C7_Identity(e) ==
    /\ Len(e.read) = 3 /\ Len(e.write) = 3
    /\ (e.init * C7_Prod3(e.write)) % Q = (C7_Prod3(e.read) * e.audit) % Q

\* C7: product_circuit_eval_verify is called only if init * prod(write) equals
\* prod(read) * audit for the row claims and for the column claims of the proof, and
\* a proof where either identity fails is rejected before that call.
C7_IdentitiesFirst ==
    /\ (pce # Null \/ Has("layer_claim") \/ Has("layers_len") \/ Accepted)
          => (C7_Identity(pl.eval_row) /\ C7_Identity(pl.eval_col))
    /\ (pl.eval_row # Null /\ ~(C7_Identity(pl.eval_row) /\ C7_Identity(pl.eval_col)))
          => (pc = "done" /\ outcome = "panic" /\ pce = Null)

\* product_layer_verify returned after both product-circuit arguments were verified on
\* claims with init 2 and a read list that is not constant.
C7_Witness ==
    /\ Accepted
    /\ pl.eval_row.init = 2 /\ pl.eval_row.read = <<1, 1, 2>>
    /\ Has("layer_claim")

(***************************************************************************)
(* Properties of hash_layer_verify (specification SpecHash)                *)
(***************************************************************************)
C8_Hash(addr, val, ts, gamma) ==
    (addr * gamma[1] * gamma[1] + val * gamma[1] + ts + Q - gamma[2]) % Q

C8_Memory(claims, r, ops_val, evals) ==
    LET init == C8_Hash(eval_init_addr(hl.rands[2]), eval_eq_x_y(r, hl.rands[2]), 0, hl.gamma)
    IN  /\ claims.init = init
        /\ claims.audit = (init + evals.audit_ts) % Q
        /\ \A i \in 1 .. 3 :
             /\ i <= Len(evals.addr) /\ i <= Len(evals.read_ts)
             /\ claims.read[i] = C8_Hash(evals.addr[i], ops_val[i], evals.read_ts[i], hl.gamma)
             /\ claims.write[i] =
                  C8_Hash(evals.addr[i], ops_val[i], evals.read_ts[i] + 1, hl.gamma)

\* C8, as stated: hash_layer_verify succeeds only if, for rows and for columns, the
\* init claim, each of the three read claims, each of the three write claims and the
\* audit claim equal the hashes recomputed from the opened evaluations, whatever the
\* lengths of the evaluation lists of the proof.
C8_AsStated ==
    Accepted =>
        /\ C8_Memory(hl.claims_row, hl.r[1], hl.evals_derefs[1], hl.evals_row)
        /\ C8_Memory(hl.claims_col, hl.r[2], hl.evals_derefs[2], hl.evals_col)

(***************************************************************************)
(* Properties of r1cs_satisfied_verify (specification Spec)                *)
(***************************************************************************)
RECURSIVE C11_Rep(_, _)
C11_Rep(s, n) == IF n = 0 THEN <<>> ELSE s \o C11_Rep(s, n - 1)

\* The transcript operations of one sumcheck round with its consistency check.
C11_Round ==
    <<Appended("comm_poly"), Derived("challenge_nextround"),
      Appended("comm_claim_per_round"), Appended("comm_eval"),
      Derived("combine_two_claims_to_one"), Derived("combine_two_claims_to_one"),
      Appended("Cx"), Appended("Cy"), Appended("delta"), Appended("beta"), Derived("c")>>

C11_Eq == <<Appended("C1"), Appended("C2"), Appended("alpha"), Derived("c")>>

\* The steps of r1cs_satisfied_verify in the order of the claim, each with the
\* transcript operations it makes; a step without a name makes no sub-check.
C11_Steps(nx, ny) ==
    LET step(name, ops) == [name |-> name, ops |-> ops]
        size == ny - 1
    IN  <<step("", <<Appended("poly_commitment")>>),
          step("", C11_Rep(<<Derived("challenge_tau")>>, nx))>>
        \o [i \in 1 .. nx |-> step("sum_check_eval_verify", C11_Round)]
        \o <<step("knowledge_verify", <<Appended("C"), Appended("alpha"), Derived("c")>>),
             step("product_verify",
                  <<Appended("X"), Appended("Y"), Appended("Z"), Appended("alpha"),
                    Appended("beta"), Appended("delta"), Derived("c")>>),
             step("sc1_eq_verify",
                  <<Appended("comm_Az_claim"), Appended("comm_Bz_claim"),
                    Appended("comm_Cz_claim"), Appended("comm_prod_Az_Bz_claims")>>
                  \o C11_Eq),
             step("", <<Derived("challenege_Az"), Derived("challenege_Bz"),
                        Derived("challenege_Cz")>>)>>
        \o [i \in 1 .. ny |-> step("sum_check_eval_verify", C11_Round)]
        \o <<step("witness_opening",
                  <<Appended("protocol-name"), Appended("Cx"), Appended("Cy")>>
                  \o C11_Rep(<<Appended("L"), Appended("R"), Derived("u")>>,
                             size - size \div 2)
                  \o <<Appended("delta"), Appended("beta"), Derived("challenge_tau")>>),
             step("sc2_eq_verify", C11_Eq)>>

RECURSIVE C11_Ops(_)
C11_Ops(steps) == IF steps = <<>> THEN <<>> ELSE steps[1].ops \o C11_Ops(Tail(steps))

C11_Named(steps) == SelectSeq(steps, LAMBDA s : s.name # "")

\* The number of transcript operations made when the k-th sub-check has been made.
RECURSIVE C11_EndPos(_, _)
C11_EndPos(steps, k) ==
    IF steps = <<>> \/ k = 0 THEN 0
    ELSE Len(steps[1].ops)
         + C11_EndPos(Tail(steps), IF steps[1].name = "" THEN k ELSE k - 1)

\* C11: r1cs_satisfied_verify makes its transcript operations and sub-checks in the
\* order witness commitment, tau, sumcheck #1, knowledge proof, product proof, first
\* equality proof, r_a r_b r_c, sumcheck #2, witness opening, final equality proof; a
\* step starts only when the sub-checks before it passed, and the returned rx and ry
\* are the challenges of the rounds of sumcheck #1 and of sumcheck #2.
C11_Order ==
    (r1 # Null /\ ~Has("padding_len")) =>
        LET nx == r1.num_rounds_x
            ny == r1.num_rounds_y
            steps == C11_Steps(nx, ny)
            log == C11_Ops(steps)
            named == C11_Named(steps)
            done == IF Len(checks) < Len(named) THEN Len(checks) ELSE Len(named)
        IN  /\ \A j \in 1 .. Len(TLog) : j <= Len(log) => TLog[j] = log[j]
            /\ \A k \in 1 .. done :
                 /\ checks[k].name = named[k].name
                 /\ k < Len(checks) => checks[k].ok
                 /\ Len(TLog) >= C11_EndPos(steps, k)
            /\ done < Len(named) => Len(TLog) <= C11_EndPos(steps, done + 1)
            /\ (done = Len(named) /\ checks[done].ok) =>
                 /\ r1.rx = [i \in 1 .. nx |-> checks[i].info.r]
                 /\ r1.ry = [i \in 1 .. ny |-> checks[nx + 3 + i].info.r]
                 /\ pc \in {"nizk_return", "snark_sparse"} =>
                      (ret.rx = r1.rx /\ ret.ry = r1.ry)

\* r1cs_satisfied_verify returned to nizk_verify after one round of sumcheck #1 and
\* two rounds of sumcheck #2.
C11_Witness ==
    /\ pc = "nizk_return"
    /\ r1.num_rounds_x = 1 /\ r1.num_rounds_y = 2
    /\ Len(ret.rx) = 1 /\ Len(ret.ry) = 2
    /\ Has("sc2_eq_verify")


C12_InCall(label) == \E i \in DOMAIN stack : stack[i] = label

\* The least l with 2^l >= n.
C12_Log2(n) == CHOOSE l \in 0 .. n : Pow2(l) >= n /\ \A k \in 0 .. (l - 1) : Pow2(k) < n

\* C12: whatever the proof, sumcheck #1 runs with size 4 and the 4-generator
\* parameters for log2(num_constraints) rounds and tau has one entry per round;
\* sumcheck #2 runs with size 3 and the 3-generator parameters for
\* log2(next_power_of_two(max(num_aux, num_inputs))) + 1 rounds.
C12_Sizes ==
    LET nc == top.r1cs.num_constraints
        t  == IF top.r1cs.num_aux > top.r1cs.num_inputs THEN top.r1cs.num_aux
              ELSE top.r1cs.num_inputs
    IN  /\ C12_InCall("r1cs_knowledge") =>
             /\ sc.size = 4 /\ sc.gen_n = 4
             /\ sc.num_rounds = C12_Log2(nc)
             /\ Len(r1.tau) = sc.num_rounds
             /\ sc.i <= sc.num_rounds
        /\ C12_InCall("r1cs_open_witness") =>
             /\ sc.size = 3 /\ sc.gen_n = 3
             /\ sc.num_rounds = C12_Log2(Pow2(C12_Log2(t))) + 1
             /\ sc.i <= sc.num_rounds
        /\ pc = "r1cs_knowledge" => Len(ret.rx) = C12_Log2(nc)
        /\ pc = "r1cs_open_witness" => Len(ret.rx) = C12_Log2(Pow2(C12_Log2(t))) + 1

\* Sumcheck #2 returned its two challenges on an instance with two constraints, after
\* sumcheck #1 took one round.
C12_Witness ==
    /\ pc = "r1cs_open_witness"
    /\ top.r1cs.num_constraints = 2
    /\ Len(ret.rx) = 2 /\ Len(r1.rx) = 1 /\ Len(r1.tau) = 1


(***************************************************************************)
(* Properties of product_circuit_eval_verify (specification SpecPCE)       *)
(***************************************************************************)
\* The layer checks in the order they were made.
C13_Layers == SelectSeq(checks, LAMBDA c : c.name = "layer_claim")

\* C13 as stated: the number of sumcheck rounds of a layer never increases from one
\* processed layer to the next, and a run that returns processed exactly log2(n)
\* layers.
C13_AsStated ==
    /\ \A j \in 1 .. (Len(C13_Layers) - 1) :
         Len(C13_Layers[j + 1].info.r) <= Len(C13_Layers[j].info.r)
    /\ (outcome = "returned" /\ pce # Null) => Pow2(Len(C13_Layers)) = pce.n

\* C13 amended: the layers are processed from the narrowest to the widest: the j-th
\* processed layer (counted from 0) runs a sumcheck of exactly j rounds, so the number
\* of rounds grows by one from each layer to the next, and a run that returns
\* processed exactly log2(n) layers.
C13_Rounds ==
    /\ \A j \in 1 .. Len(C13_Layers) :
         /\ C13_Layers[j].info.layer = j - 1
         /\ Len(C13_Layers[j].info.r) = j - 1
         /\ Len(C13_Layers[j].info.rands) = j - 1
    /\ (pce # Null /\ outcome # "panic") =>
         /\ pc \in {"pce_loop", "sum_check_cubic_verify", "cubic_loop", "pce_layer_check",
                    "pce_layer_reduce"} => pce.num_rounds = pce.i
         /\ pc \in {"sum_check_cubic_verify", "cubic_loop"} => cub.num_rounds = pce.i
         /\ outcome = "returned" =>
              /\ Pow2(Len(C13_Layers)) = pce.n
              /\ \A j \in 1 .. Len(C13_Layers) : C13_Layers[j].ok

\* A run over n = 4 returned after a layer with no sumcheck round and then a layer with
\* one round.
C13_Witness ==
    /\ outcome = "returned" /\ pce # Null /\ pce.n = 4
    /\ Len(C13_Layers) = 2
    /\ Len(C13_Layers[1].info.r) = 0 /\ Len(C13_Layers[2].info.r) = 1


\* C14: at every layer that reaches its comparison the left and right claim vectors of
\* the layer proof have the same length, the number of product claims passed in,
\* whatever the number of dot-product claims joined to the coefficients on the last
\* layer; the claims carried to the next layer and returned have that length too.
C14_Lengths ==
    pce # Null =>
        LET k == Len(pce.claims_prod_circuit)
            d == Len(pce.claims_dotp_circuit)
        IN  /\ \A j \in LayerChecks :
                 LET e == checks[j].info
                 IN  /\ Len(e.proof.left) = k
                     /\ Len(e.proof.right) = k
                     /\ Len(e.coeffs) = IF e.layer = pce.layer_num - 1 THEN k + d ELSE k
            /\ (pc = "pce_loop" /\ outcome # "panic") => Len(pce.claims_to_verify) = k
            /\ (pc = "done" /\ outcome = "returned" /\ ret # Null /\ pl = Null) =>
                 Len(ret.claims) = k

\* A run with two product claims and two dot-product claims returned: its last layer
\* drew four coefficients and its claim vectors have two entries each.
C14_Witness ==
    /\ pce # Null /\ outcome = "returned"
    /\ Len(pce.claims_prod_circuit) = 2 /\ Len(pce.claims_dotp_circuit) = 2
    /\ \E j \in LayerChecks :
         /\ checks[j].ok /\ Len(checks[j].info.coeffs) = 4
         /\ Len(checks[j].info.proof.left) = 2 /\ Len(checks[j].info.proof.right) = 2


C15_Drawn == Count(Derived("challenge_r_layer"), Len(TLog))
C15_Passed == Cardinality({j \in LayerChecks : checks[j].ok})
C15_AtLayerEnd == pce # Null /\ pc = "pce_loop" /\ pce.i > 0 /\ outcome # "panic"

\* The claims carried out of a layer: left_i + r_layer * (right_i - left_i), and
\* r_layer is the challenge derived last, after the layer's claims were absorbed.
C15_Claims ==
    LET e == C13_Layers[pce.i].info
    IN  /\ C13_Layers[pce.i].ok
        /\ TLog[Len(TLog)] = Derived("challenge_r_layer")
        /\ pce.r_layer = transcript.d % Q
        /\ C15_Drawn = pce.i
        /\ pce.claims_to_verify =
             [k \in 1 .. Len(e.proof.left) |->
                (e.proof.left[k] + pce.r_layer * (e.proof.right[k] + Q - e.proof.left[k])) % Q]

\* C15 as stated: at the end of every layer each claim becomes
\* left_i + r_layer * (right_i - left_i) with r_layer drawn after the layer's check, and
\* the accumulated challenge vector becomes r_layer followed by the vector accumulated
\* before the layer.
C15_AsStated ==
    /\ C15_Drawn <= C15_Passed
    /\ C15_AtLayerEnd =>
         /\ C15_Claims
         /\ pce.rands = <<pce.r_layer>> \o C13_Layers[pce.i].info.rands

\* C15 amended: at the end of every layer each claim becomes
\* left_i + r_layer * (right_i - left_i) with r_layer drawn after the layer's check, and
\* the accumulated challenge vector becomes r_layer followed by the challenges of this
\* layer's sumcheck; the vector accumulated before the layer is dropped.
C15_Reduce ==
    /\ C15_Drawn <= C15_Passed
    /\ C15_AtLayerEnd =>
         /\ C15_Claims
         /\ pce.rands = <<pce.r_layer>> \o C13_Layers[pce.i].info.r
    /\ (pce # Null /\ pl = Null /\ pc = "done" /\ outcome = "returned") =>
         /\ ret.rands = pce.rands
         /\ ret.claims = pce.claims_to_verify

\* The end of a second layer whose sumcheck challenge differs from the challenge kept
\* from the first layer, with a claim whose left and right values differ.
C15_Witness ==
    /\ C15_AtLayerEnd /\ pce.i = 2
    /\ C13_Layers[2].info.r # C13_Layers[2].info.rands
    /\ pce.r_layer \notin {0, 1}
    /\ \E k \in DOMAIN C13_Layers[2].info.proof.left :
         C13_Layers[2].info.proof.left[k] # C13_Layers[2].info.proof.right[k]


(***************************************************************************)
(* Properties of snark_verify (specification Spec)                         *)
(***************************************************************************)
C16_ShapeChecks == {"product_layer_shape", "layer_shape", "layers_len", "cubic_polys_len"}

\* C16 as stated: when snark_verify rejects a proof for a violated shape invariant
\* (claim lists not of length 3, left or right claim vectors of the wrong length, a
\* layer count other than log2(n), a wrong number of round polynomials), no
\* cryptographic check was evaluated before the rejection and no challenge was drawn.
C16_AsStated ==
    (top # Null /\ top.entry = "snark_verify") =>
        \A k \in DOMAIN checks :
            (checks[k].name \in C16_ShapeChecks /\ ~checks[k].ok) =>
                /\ \A j \in 1 .. (k - 1) : checks[j].name \in C16_ShapeChecks
                /\ \A i \in DOMAIN TLog : TLog[i].op # "challenge"


\* C19: snark_verify starts sparse_poly_eval_verify only after every sub-check of
\* r1cs_satisfied_verify passed, on the point (rx, ry) that r1cs_satisfied_verify
\* returned (the challenges of its two sumchecks) and on the three evaluations of the
\* proof that r1cs_satisfied_verify used, after absorbing Ar_claim, Br_claim and
\* Cr_claim into the transcript that r1cs_satisfied_verify left; it returns Ok(())
\* only after every sub-check of sparse_poly_eval_verify passed.
C19_Sparse ==
    (top # Null /\ top.entry = "snark_verify") =>
        /\ sp = Null => ~(\E name \in {"memory_size", "product_layer_shape", "row_identity",
                                        "layer_claim", "mem_opening"} : Has(name))
        /\ sp # Null =>
             LET nx == r1.num_rounds_x  ny == r1.num_rounds_y
                 steps == C11_Steps(nx, ny)  n0 == Len(C11_Ops(steps))
                 named == C11_Named(steps)  nn == Len(named)
                 point == equalize_length([i \in 1 .. nx |-> checks[i].info.r],
                                          [i \in 1 .. ny |-> checks[nx + 3 + i].info.r])
             IN  /\ Len(checks) >= nn
                 /\ \A k \in 1 .. nn : checks[k].name = named[k].name /\ checks[k].ok
                 /\ \A k \in DOMAIN checks :
                      checks[k].name \in {"memory_size", "product_layer_shape", "row_identity",
                                          "layer_claim", "mem_opening"} => k > nn
                 /\ sp.rx = point[1] /\ sp.ry = point[2]
                 /\ sp.evals = top.matrix_evals /\ r1.matrix_evals = top.matrix_evals
                 /\ Len(TLog) >= n0 + 3
                 /\ \A j \in 1 .. n0 : TLog[j] = C11_Ops(steps)[j]
                 /\ TLog[n0 + 1] = Appended("Ar_claim")
                 /\ TLog[n0 + 2] = Appended("Br_claim")
                 /\ TLog[n0 + 3] = Appended("Cr_claim")
                 /\ \A j \in DOMAIN TLog :
                      TLog[j] \in {Appended("Ar_claim"), Appended("Br_claim"),
                                   Appended("Cr_claim")} => j \in (n0 + 1) .. (n0 + 3)
        /\ Accepted =>
             /\ sp # Null
             /\ ret = [ok |-> TRUE, value |-> "unit"]
             /\ Has("memory_size") /\ Has("mem_opening")
             /\ checks[Len(checks)].name = "hash_audit"
             /\ \A k \in DOMAIN checks : checks[k].ok

\* snark_verify returned Ok(()) on an instance with two constraints: the sparse check
\* ran on a point with one x challenge and two y challenges.
C19_Witness ==
    /\ Accepted /\ top.entry = "snark_verify"
    /\ r1.num_rounds_x = 1 /\ r1.num_rounds_y = 2
    /\ sp # Null /\ Has("mem_opening")


RECURSIVE C22_Value(_)
C22_Value(limbs) == IF limbs = <<>> THEN 0 ELSE limbs[1] + Limb * C22_Value(Tail(limbs))

\* C22 as stated: for every number of limbs and every val that fits in them,
\* from_u128(val) has limb 0 equal to the low word of val, limb 1, when present, equal
\* to the high word, every other limb zero, and so the value val; integers of one limb
\* with val below one word included.
C22_AsStated ==
    (pc = "done" /\ outcome = "returned" /\ top.val < Limb ^ top.num_limbs) =>
        /\ Len(ret) = top.num_limbs
        /\ ret[1] = top.val % Limb
        /\ top.num_limbs >= 2 => ret[2] = top.val \div Limb
        /\ \A i \in 3 .. top.num_limbs : ret[i] = 0
        /\ C22_Value(ret) = top.val


(***************************************************************************)
(* Properties of nizk_verify (specification Spec)                          *)
(***************************************************************************)
C23_EvalsAt(rx, ry) ==
    <<evaluate_mle(top.r1cs.a_matrix, rx, ry), evaluate_mle(top.r1cs.b_matrix, rx, ry),
      evaluate_mle(top.r1cs.c_matrix, rx, ry)>>

\* C23 as stated: when nizk_verify accepts, the A, B, C evaluations used in the final
\* equality check are the evaluations at the point (rx, ry) that r1cs_satisfied_verify
\* derived from the transcript, and the point proof.r stated by the proof is that point.
C23_AsStated ==
    (Accepted /\ top.entry = "nizk_verify" /\ ret.value) =>
        /\ r1.matrix_evals = C23_EvalsAt(r1.rx, r1.ry)
        /\ top.proof_r = <<r1.rx, r1.ry>>


(***************************************************************************)
(* Properties of the sub-proofs (specification Spec)                       *)
(***************************************************************************)
\* The operations just before the k-th one are the absorptions of these labels.
C24_Before(k, labels) ==
    /\ Len(labels) < k
    /\ \A j \in 1 .. Len(labels) : TLog[k - Len(labels) + j - 1] = Appended(labels[j])

\* The k-th operation closes an opening proof: protocol-name, Cx, Cy, the folding
\* rounds, delta, beta and then the challenge.
C24_Opening(k) ==
    /\ C24_Before(k, <<"delta", "beta">>)
    /\ \E j \in 1 .. (k - 3) :
         /\ C24_Before(j + 3, <<"protocol-name", "Cx", "Cy">>)
         /\ \A i \in (j + 3) .. (k - 3) :
              TLog[i] \in {Appended("L"), Appended("R"), Derived("u")}

\* C24: in knowledge_verify, product_verify, eq_verify, sum_check_eval_verify and
\* inner_product_verify the challenge c is derived only after the statement
\* commitments and every first-message commitment of the sub-proof were absorbed, and
\* no response scalar is absorbed before it.
C24_ChallengeLast ==
    \A k \in DOMAIN TLog :
        /\ TLog[k] = Derived("c") =>
             \/ C24_Before(k, <<"C", "alpha">>)
             \/ C24_Before(k, <<"X", "Y", "Z", "alpha", "beta", "delta">>)
             \/ C24_Before(k, <<"C1", "C2", "alpha">>)
             \/ C24_Before(k, <<"Cx", "Cy", "delta", "beta">>)
        /\ (TLog[k] = Derived("challenge_tau") /\ k > 1 /\ TLog[k - 1].op = "append"
                /\ TLog[k - 1].label # "poly_commitment") => C24_Opening(k)
        /\ TLog[k].op = "append" => TLog[k].label \notin {"z", "z1", "z2", "z_delta", "z_beta"}

\* A run that made all five kinds of sub-proof: the final equality proof derived its
\* challenge after the opening of the witness with a folding round.
C24_Witness ==
    /\ Has("sc2_eq_verify") /\ Has("knowledge_verify") /\ Has("product_verify")
    /\ Has("sum_check_eval_verify") /\ Has("witness_opening")
    /\ \E k \in DOMAIN TLog : TLog[k] = Derived("u")
    /\ TLog[Len(TLog)] = Derived("c")


(***************************************************************************)
(* Properties of sum_check_eval_verify (specification SpecSC)              *)
(***************************************************************************)
\* The powers x^0 .. x^(n-1), and the value of the polynomial with the coefficients p,
\* lowest degree first, at the point with these powers.
C25_Powers(x, n) == [i \in 1 .. n |-> FPow(x, i - 1)]

\* The coefficients the polynomials of C25 are built from: all of the smallest field,
\* and the unit vectors and their sums in a larger one (the identity is linear in p).
C25_Coefficients == Fr \cap (0 .. 2)

RECURSIVE C25_Dot(_, _, _)
C25_Dot(p, q, n) == IF n = 0 THEN 0 ELSE (p[n] * q[n] + C25_Dot(p, q, n - 1)) % Q

C25_Eval(p, powers) == C25_Dot(p, powers, Len(p))

\* C25: for every polynomial p with size coefficients the inner product of p with the
\* coefficient vector of sum_check_eval_verify is w0 * (p(0) + p(1)) + w1 * p(r), and
\* the round is accepted only if the commitment identity and the inner-product
\* identity both hold.  The first is stated of the round just checked, with its w and r.
C25_Coeffs ==
    /\ \A k \in DOMAIN checks :
         (checks[k].name = "sum_check_eval_verify" /\ checks[k].ok) =>
             (checks[k].info.rs1 /\ checks[k].info.rs2)
    /\ (pc = "sum_check_verify_assert" /\ checks # <<>>) =>
         LET e == checks[Len(checks)].info
             coeffs == eval_coeffs(e.w, e.r, e.size)
             at_0 == C25_Powers(0, e.size)
             at_1 == C25_Powers(1, e.size)
             at_r == C25_Powers(e.r, e.size)
         IN  \A p \in [1 .. e.size -> C25_Coefficients] :
                 C25_Dot(p, coeffs, e.size)
                   = FAdd(FMul(e.w[1], FAdd(C25_Eval(p, at_0), C25_Eval(p, at_1))),
                          FMul(e.w[2], C25_Eval(p, at_r)))

\* Rounds were checked with both combining scalars nonzero at a point other than 0 and
\* 1: one was accepted, and one was rejected although its commitment identity held.
C25_Witness ==
    /\ \E k \in DOMAIN checks :
         /\ checks[k].name = "sum_check_eval_verify" /\ checks[k].ok
         /\ checks[k].info.w[1] # 0 /\ checks[k].info.w[2] # 0
         /\ checks[k].info.r \notin {0, 1}
    /\ \E k \in DOMAIN checks :
         /\ checks[k].name = "sum_check_eval_verify" /\ ~checks[k].ok
         /\ checks[k].info.rs1 /\ ~checks[k].info.rs2


(***************************************************************************)
(* Properties of product_layer_verify (specification SpecPL)               *)
(***************************************************************************)
\* eval_dotp_left[i] + eval_dotp_right[i] == evals[i] for the three matrices
C26_Sums(dotp, evals) ==
    /\ Len(dotp.left) = 3 /\ Len(dotp.right) = 3 /\ Len(evals) = 3
    /\ \A i \in 1 .. 3 : (dotp.left[i] + dotp.right[i]) % Q = evals[i]

\* C26: product_layer_verify proceeds to the product-circuit argument only if
\* eval_dotp_left[i] + eval_dotp_right[i] equals evals[i] for each of the three
\* matrices; a proof where one of the sums differs is rejected.
C26_DotpSums ==
    pl.eval_dotp # Null =>
        /\ pce # Null => C26_Sums(pl.eval_dotp, pl.evals)
        /\ ~C26_Sums(pl.eval_dotp, pl.evals) => (pc = "done" /\ outcome = "panic")

\* The product-circuit argument of the operations was started after three sums were
\* compared with three claimed evaluations that are not all equal.
C26_Witness ==
    /\ pc = "product_circuit_eval_verify" /\ pce # Null /\ pl.eval_dotp # Null
    /\ Cardinality({k \in DOMAIN checks : checks[k].name = "dotp_sum" /\ checks[k].ok}) = 3
    /\ pl.evals = <<1, 1, 2>>


(***************************************************************************)
(* Properties of the auxiliary claims (specification SpecPCE)              *)
(***************************************************************************)
\* C27, as stated: on the final layer the number of (row, col, val) triples taken from
\* proof.claim_dotp equals the number of auxiliary dot-product claims appended to the
\* claim list, and a proof whose claim_dotp lists have a different length is rejected.
C27_AsStated ==
    \A k \in DOMAIN checks :
        (checks[k].name = "layer_claim" /\ checks[k].ok
            /\ checks[k].info.layer = pce.layer_num - 1) =>
            LET dotp == checks[k].info.proof.dotp
            IN  /\ Len(dotp.row) = Len(pce.claims_dotp_circuit)
                /\ Len(dotp.col) = Len(pce.claims_dotp_circuit)
                /\ Len(dotp.val) = Len(pce.claims_dotp_circuit)


(***************************************************************************)
(* Properties of the positional hand-offs (specification Spec)             *)
(***************************************************************************)
\* The accepted last layer of the argument over the operations: the one whose
\* coefficients cover the twelve product claims and the six dot-product claims.
C28_OpsLayers ==
    {k \in DOMAIN checks : /\ checks[k].name = "layer_claim" /\ checks[k].ok
                           /\ Len(checks[k].info.coeffs) = 18}

\* The hash comparisons of one memory are made on the claims and evaluations of
\* their own role.
C28_Hashes(mem, claims, r, ops_val, evals) ==
    \A k \in DOMAIN checks :
        LET c == checks[k]
            i == c.info[2]
        IN  /\ (c.name = "hash_init" /\ c.info[1] = mem) =>
                 (c.ok <=> claims.init = hash_init(hl.rands[2], r, hl.gamma))
            /\ (c.name = "hash_read" /\ c.info[1] = mem) =>
                 (c.ok <=> claims.read[i]
                             = hash_at(evals.addr[i], ops_val[i], evals.read_ts[i], hl.gamma))
            /\ (c.name = "hash_write" /\ c.info[1] = mem) =>
                 (c.ok <=> claims.write[i]
                             = hash_at(evals.addr[i], ops_val[i],
                                       (evals.read_ts[i] + 1) % Q, hl.gamma))
            /\ (c.name = "hash_audit" /\ c.info[1] = mem) =>
                 (c.ok <=> claims.audit
                             = (hash_init(hl.rands[2], r, hl.gamma) + evals.audit_ts) % Q)

\* C28: claims keep their role across the positional hand-offs.  The twelve reduced
\* operation claims are consumed as row-read, row-write, column-read, column-write in
\* the order product_layer_verify concatenated them, the four reduced memory claims as
\* row-init, row-audit, column-init, column-audit in the order they were passed in,
\* the nine reduced dot-product claims as (row, col, val) triples per matrix, and no
\* claim of one role is compared against a hash or evaluation of another role.
C28_Roles ==
    /\ (pl # Null /\ pce # Null /\ pl.eval_row # Null /\ pl.ops = Null) =>
         /\ pce.claims_prod_circuit = pl.eval_row.read \o pl.eval_row.write
                                        \o pl.eval_col.read \o pl.eval_col.write
         /\ \A i \in 1 .. 3 :
              /\ pce.claims_dotp_circuit[2 * i - 1] = pl.eval_dotp.left[i]
              /\ pce.claims_dotp_circuit[2 * i] = pl.eval_dotp.right[i]
    /\ (pl # Null /\ pl.ops # Null) =>
         /\ pce.claims_prod_circuit = <<pl.eval_row.init, pl.eval_row.audit,
                                        pl.eval_col.init, pl.eval_col.audit>>
         /\ pce.claims_dotp_circuit = <<>>
         /\ \A k \in C28_OpsLayers :
              LET e == checks[k].info.proof
                  r_layer == pl.ops.rands[1]
              IN  /\ pl.ops.claims = [j \in 1 .. 12 |-> reduce(e.left[j], e.right[j], r_layer)]
                  /\ \A t \in 1 .. (Len(pl.ops.claims_dotp) \div 3) :
                       /\ pl.ops.claims_dotp[3 * t - 2]
                            = reduce(e.dotp.row[2 * t - 1], e.dotp.row[2 * t], r_layer)
                       /\ pl.ops.claims_dotp[3 * t - 1]
                            = reduce(e.dotp.col[2 * t - 1], e.dotp.col[2 * t], r_layer)
                       /\ pl.ops.claims_dotp[3 * t]
                            = reduce(e.dotp.val[2 * t - 1], e.dotp.val[2 * t], r_layer)
    /\ hl # Null =>
         /\ hl.claims_row = [init |-> pce.claims_to_verify[1],
                             read |-> SubSeq(pl.ops.claims, 1, 3),
                             write |-> SubSeq(pl.ops.claims, 4, 6),
                             audit |-> pce.claims_to_verify[2]]
         /\ hl.claims_col = [init |-> pce.claims_to_verify[3],
                             read |-> SubSeq(pl.ops.claims, 7, 9),
                             write |-> SubSeq(pl.ops.claims, 10, 12),
                             audit |-> pce.claims_to_verify[4]]
         /\ hl.claims_dotp = pl.ops.claims_dotp
         /\ hl.evals_val # Null =>
              /\ \A i \in 1 .. 3 :
                   /\ hl.claims_dotp[3 * i - 2] = hl.evals_derefs[1][i]
                   /\ hl.claims_dotp[3 * i - 1] = hl.evals_derefs[2][i]
                   /\ hl.claims_dotp[3 * i] = hl.evals_val[i]
              /\ C28_Hashes("row", hl.claims_row, hl.r[1], hl.evals_derefs[1], hl.evals_row)
              /\ C28_Hashes("col", hl.claims_col, hl.r[2], hl.evals_derefs[2], hl.evals_col)

\* An accepted snark run whose row-read claims differ from its row-write claims and
\* whose row claims differ from its column claims.
C28_Witness ==
    /\ Accepted /\ top.entry = "snark_verify" /\ hl # Null
    /\ \E k \in DOMAIN checks : checks[k].name = "hash_audit" /\ checks[k].info[1] = "col"
    /\ hl.claims_row.read # hl.claims_row.write
    /\ hl.claims_row # hl.claims_col


(***************************************************************************)
(* Properties of the shape of a SumCheckProof (specification SpecSC)       *)
(***************************************************************************)
\* C29, as stated: sum_check_verify accepts a SumCheckProof only if its comm_polys,
\* comm_evals and proofs lists each contain exactly num_rounds entries; a proof with
\* fewer or with extra round entries is rejected.
C29_AsStated ==
    (Accepted /\ sc # Null) =>
        /\ sc.lens.polys = sc.num_rounds
        /\ sc.lens.evals = sc.num_rounds
        /\ sc.lens.proofs = sc.num_rounds


(***************************************************************************)
(* Properties of sum_check_cubic_verify (specification SpecPCE)            *)
(***************************************************************************)
\* C30, as stated: sum_check_cubic_verify accepts a round only if its polynomial has
\* degree at most 3 (at most four coefficients); a round polynomial of higher degree
\* is rejected.
C30_AsStated ==
    (cub # Null /\ pc = "pce_layer_check") =>
        \A k \in DOMAIN cub.rounds : Len(cub.rounds[k].poly) <= 4


(***************************************************************************)
(* Properties of the widths of product_circuit_eval_verify (SpecPCE)       *)
(***************************************************************************)
\* C31: at layer i (counting from 0) the layer's sumcheck has exactly i rounds and the
\* accumulated challenge vector has exactly i entries, so the assertion that their
\* lengths are equal cannot fail once the layer's sumcheck has returned; when the
\* function returns, the accumulated challenge vector has exactly log2(n) entries.
C31_Widths ==
    pce # Null =>
        /\ pc \in {"pce_layer_check", "pce_layer_reduce"} =>
             /\ Len(cub.rounds) = pce.i /\ Len(ret.r) = pce.i
             /\ Len(pce.rands) = pce.i
             /\ Len(pce.rands) = Len(ret.r)
        /\ Accepted =>
             /\ Len(ret.rands) = log2(pce.n)
             /\ Len(pce.rands) = pce.layer_num

\* The function returned on the widest instance, n = 2^MaxLayers, with MaxLayers
\* accumulated challenges, its last sumcheck having run MaxLayers - 1 rounds.
C31_Witness ==
    /\ Accepted /\ pce # Null /\ pce.n = Pow2(MaxLayers)
    /\ Len(ret.rands) = MaxLayers /\ MaxLayers >= 2
    /\ cub # Null /\ Len(cub.rounds) = MaxLayers - 1


(***************************************************************************)
(* Properties of sparse_poly_eval_verify (specification Spec)              *)
(***************************************************************************)
\* The common length of rx and ry after equalize_length.
C32_K == IF Len(r1.rx) > Len(r1.ry) THEN Len(r1.rx) ELSE Len(r1.ry)

\* C32: sparse_poly_eval_verify continues only if the encoded memory size m equals
\* 2^k, k the common length of rx and ry after equalize_length; when m differs it
\* rejects before absorbing the derefs commitment and before drawing gamma1, gamma2.
C32_MemorySize ==
    \A j \in DOMAIN checks :
        checks[j].name = "memory_size" =>
            /\ Len(sp.rx) = C32_K /\ Len(sp.ry) = C32_K
            /\ checks[j].ok <=> (sp.m = Pow2(C32_K))
            /\ ~checks[j].ok =>
                 /\ pc = "done" /\ outcome = "panic" /\ j = Len(checks)
                 /\ \A i \in DOMAIN TLog :
                      TLog[i] \notin {Appended("comm_poly_row_col_ops_val"),
                                      Derived("challenge_gamma_hash")}
            /\ checks[j].ok =>
                 \E i \in DOMAIN TLog : TLog[i] = Appended("comm_poly_row_col_ops_val")

\* A snark run was rejected on the memory size although its satisfiability part had
\* passed, rx and ry having different lengths before they were equalized.
C32_Witness ==
    /\ top # Null /\ top.entry = "snark_verify" /\ Has("memory_size") /\ Failed
    /\ sp # Null /\ sp.m # Pow2(Len(sp.rx))
    /\ Len(r1.rx) # Len(r1.ry)


(***************************************************************************)
(* Properties of the public-input padding (specification Spec)             *)
(***************************************************************************)
\* C33, as stated: the public-input vector is [1], the caller's inputs and zeros, of
\* length exactly 2^(num_rounds_y - 1); the padding count never underflows: when the
\* caller supplies more inputs than fit, the call reports an error instead of wrapping
\* or crashing.
C33_AsStated ==
    r1 # Null =>
        /\ Has("sc2_eq_verify") => Len(r1.inputs) + 1 <= Pow2(r1.num_rounds_y - 1)
        /\ (pc = "done" /\ Len(r1.inputs) + 1 > Pow2(r1.num_rounds_y - 1)
              /\ \E k \in DOMAIN checks : checks[k].name = "witness_opening" /\ checks[k].ok)
             => outcome # "panic"

(***************************************************************************)
(* Properties of the command line programs (specification SpecCli)         *)
(***************************************************************************)
\* Both programs have run.
C34_BothRan == pc = "done" /\ top.setup # Null /\ top.prove # Null

\* The run was given SCHEME, CURVE and CIRCUIT, all three of them implemented and the
\* scheme one of the four that setup knows.
C34_Supported(run) ==
    /\ Len(run.args) >= 4
    /\ run.args[2] \in {"groth16", "marlin", "spartan_snark", "spartan_nizk"}
    /\ run.args[3] \in {"bn_256", "bls12_381"}
    /\ run.args[4] \in {"mini", "hash"}

\* The file name the scheme's parameters are kept under.
C34_Name(scheme, curve, circuit) ==
    CASE scheme = "groth16" -> <<scheme, "-", curve, "-", circuit, ".pk">>
      [] scheme = "marlin" -> <<scheme, "-", curve, ".universal_setup">>
      [] OTHER -> <<scheme, "-", curve, "-", circuit, ".universal_setup">>

\* The files a run has written.
C34_Wrote(run) == run.fs.files \ run.before.files

\* C34: after setup SCHEME CURVE CIRCUIT has succeeded, the file whose bytes zkp-prove
\* SCHEME CURVE CIRCUIT deserializes is a file that setup wrote under ./setup_files, of
\* the name of the scheme: SCHEME-CURVE-CIRCUIT.pk for groth16, SCHEME-CURVE.universal_setup
\* for marlin whatever the circuit of either run, SCHEME-CURVE-CIRCUIT.universal_setup
\* for the two spartan schemes.
C34_FileNames ==
    (/\ C34_BothRan
     /\ top.setup.result = "Ok"
     /\ C34_Supported(top.setup) /\ C34_Supported(top.prove)
     /\ top.prove.args[2] = top.setup.args[2] /\ top.prove.args[3] = top.setup.args[3]
     /\ top.prove.args[4] = top.setup.args[4] \/ top.setup.args[2] = "marlin"
     /\ top.prove.read # {})
        => /\ top.prove.read \subseteq C34_Wrote(top.setup)
           /\ top.prove.read =
                {<<SETUP_DIR, C34_Name(top.setup.args[2], top.setup.args[3], top.setup.args[4])>>}

\* setup marlin with one circuit, then zkp-prove marlin with the other one, which reads
\* the parameters and writes a proof.
C34_Witness ==
    /\ C34_BothRan
    /\ top.setup.result = "Ok" /\ top.prove.result = "Ok"
    /\ C34_Supported(top.setup) /\ C34_Supported(top.prove)
    /\ top.setup.args[2] = "marlin" /\ top.prove.args[2] = "marlin"
    /\ top.setup.args[3] = top.prove.args[3]
    /\ top.setup.args[4] = "hash" /\ top.prove.args[4] = "mini"
    /\ top.prove.read # {}
    /\ top.prove.read \subseteq top.setup.fs.files

\* The run was given fewer than n words after the program's name, and ended with the
\* usage and Err("Params invalid!") if so.
C35_Refused(run, n) ==
    Len(run.args) - 1 < n =>
        /\ run.result = "Err"
        /\ run.err = <<"Params invalid!">>
        /\ run.usage

\* C35: setup reads SCHEME and CURVE and zkp-prove reads SCHEME, CURVE and CIRCUIT, and
\* each of them prints the usage and returns Err("Params invalid!") when it is given
\* fewer words than it reads, so that neither panics on an index out of range whatever
\* the number of its arguments.
C35_AsStated ==
    /\ top.setup # Null => C35_Refused(top.setup, 2)
    /\ top.prove # Null => C35_Refused(top.prove, 3)

\* C36: when setup returns Err because the curve, the scheme or the circuit is not
\* implemented, the file system is as it was before the run: no directory made and no
\* file written.
C36_AsStated ==
    (/\ top.setup # Null
     /\ top.setup.result = "Err"
     /\ top.setup.err[1] \in {"Curve: ", "SCHEME: ", "CIRCUIT: "})
        => top.setup.fs = top.setup.before

(***************************************************************************)
(* Properties of the limb arithmetic (specification SpecArith)             *)
(***************************************************************************)
\* C37: mac_with_carry never overflows its u128 intermediate: for every u64 a, b, c and
\* incoming carry, the returned limb plus 2^64 times the outgoing carry is exactly
\* a + b * c + the incoming carry.
C37_Exact ==
    (top.entry = "mac_with_carry" /\ top.last # Null) =>
        /\ ~top.last.wrapped
        /\ top.last.result + Limb * top.last.out =
             top.last.a + top.last.b * top.last.c + top.last.in
        /\ top.last.result < Limb /\ top.last.out < Limb

\* The largest operands: the sum is 2^128 - 1, limb and carry both 2^64 - 1.
C37_Witness ==
    /\ top.entry = "mac_with_carry" /\ top.last # Null
    /\ top.last.a = Limb - 1 /\ top.last.b = Limb - 1 /\ top.last.c = Limb - 1
    /\ top.last.in = Limb - 1
    /\ top.last.result = Limb - 1 /\ top.last.out = Limb - 1

\* C38: with an incoming borrow of 0 or 1, the intermediate of sbb never underflows, the
\* returned word is (a - b - borrow) mod 2^64 and the outgoing borrow is 1 exactly when
\* a < b + borrow and 0 otherwise; along a chain of limbs that starts with a borrow of
\* 0 or 1 every borrow is 0 or 1.
C38_Borrow ==
    top.entry = "sbb" =>
        /\ (top.last # Null /\ top.last.in \in {0, 1}) =>
             /\ ~top.last.wrapped
             /\ top.last.result = (top.last.a - top.last.b - top.last.in) % Limb
             /\ top.last.out = 1 <=> top.last.a < top.last.b + top.last.in
             /\ top.last.out \in {0, 1}
        /\ top.i >= 1 => top.flag \in {0, 1}
        /\ top.i >= 2 => top.last.in \in {0, 1} /\ outcome # "panic"

\* The last call of a chain of MaxLimbs limbs that borrows because of the borrow
\* handed to it alone: a = b and an incoming borrow of 1.
C38_Witness ==
    /\ top.entry = "sbb" /\ pc = "done" /\ outcome = "returned"
    /\ top.i = MaxLimbs /\ MaxLimbs >= 2
    /\ top.last.a = top.last.b /\ top.last.in = 1
    /\ top.last.out = 1 /\ top.last.result = Limb - 1

====
